---- MODULE Spec2Model ----
(***************************************************************************)
(* openshrimp: the agent control loop (src/src/agent.py) and the human-    *)
(* input gate (src/src/human_input.py, src/src/plugins/human_input/tool.py)*)
(*                                                                         *)
(* Two specifications share the module:                                    *)
(*   Spec      one Run of run_agent: the LangGraph alternation of          *)
(*             _llm_call and _tool_node, the loop governor and the         *)
(*             fallback summary;                                           *)
(*   SpecGate  worker threads inside ask_human, and the bot's event loop   *)
(*             delivering replies through resolve.                         *)
(***************************************************************************)
EXTENDS Naturals, Integers, Sequences, FiniteSets, TLC

(***************************************************************************)
(* State                                                                   *)
(***************************************************************************)
VARIABLES
    pc,             \* where the Run is: idle, llm_call, tool_node, fallback, done
    run,            \* run_agent's arguments and locals: query, effort, max_rounds, config
    messages,       \* the graph state: MessagesState["messages"]
    all_messages,   \* run_agent's copy of the last streamed value
    steps,          \* node executions (super-steps) of the graph so far
    thread_local,   \* agent._thread_local: on_progress and the two counter tables
    idx,            \* _tool_node: requests of the batch already processed
    result,         \* _tool_node: the ToolMessages produced so far
    last_call,      \* _tool_node: the locals of the last processed request
    llm_log,        \* model invocations of the last LLM call, in order
    last_prompt,    \* the system directive (or summary prompt) of the last LLM call
    outcome,        \* how run_agent ended: returned text or raised exception
    effects,        \* calls made to collaborators: memory archive, progress, heartbeat
    env,            \* the profile of the collaborators in this exploration
    pool            \* the executor's worker threads: each one's view of _thread_local

runVars == <<pc, run, messages, all_messages, steps, thread_local, idx, result,
             last_call, llm_log, last_prompt, outcome, effects, env, pool>>

VARIABLES
    pending,        \* human_input._pending: chat_id -> index of its PendingQuestion
    pqs,            \* the PendingQuestion objects created so far
    workers,        \* the worker threads: position in ask_human and its locals
    bot,            \* the bot's event loop: position in on_message / resolve
    tasks,          \* the task store: status, assignee, pending_question
    ask_count,      \* plugins/human_input/tool.py _ask_count: task_id -> count
    lock,           \* human_input._lock: 0 when free, else the thread holding it
    now             \* time.monotonic(), in seconds

gateVars == <<pending, pqs, workers, bot, tasks, ask_count, lock, now>>

vars == <<runVars, gateVars>>

None == "None"

Min(a, b) == IF a <= b THEN a ELSE b
Max(a, b) == IF a >= b THEN a ELSE b

(***************************************************************************)
(* Process environment.  agent.py reads its limits once, at import, with   *)
(* int(os.environ.get(NAME, default)).  The deployment modelled here sets  *)
(* the round budgets and the loop thresholds to small values; the models   *)
(* and the observation size keep their defaults.                           *)
(***************************************************************************)
environ ==
    [ AGENT_QUICK_MAX_TOOL_ROUNDS   |-> 1,
      AGENT_DEFAULT_MAX_TOOL_ROUNDS |-> 2,
      AGENT_DEEP_MAX_TOOL_ROUNDS    |-> 3,
      TOOL_LOOP_WARN_THRESHOLD      |-> 2,
      TOOL_LOOP_BLOCK_THRESHOLD     |-> 3,
      TOOL_NAME_WARN_THRESHOLD      |-> 3,
      TOOL_NAME_BLOCK_THRESHOLD     |-> 4,
      MAX_ASKS_PER_TASK             |-> 1 ]

\* os.environ.get(name, default)
EnvGet(name, default) ==
    IF name \in DOMAIN environ THEN environ[name] ELSE default

DEFAULT_MAX_TOOL_ROUNDS       == EnvGet("AGENT_DEFAULT_MAX_TOOL_ROUNDS", 10)
DEEP_RESEARCH_MAX_TOOL_ROUNDS == EnvGet("AGENT_DEEP_MAX_TOOL_ROUNDS", 25)
TOOL_LOOP_WARN_THRESHOLD      == EnvGet("TOOL_LOOP_WARN_THRESHOLD", 3)
TOOL_LOOP_BLOCK_THRESHOLD     == EnvGet("TOOL_LOOP_BLOCK_THRESHOLD", 5)
TOOL_NAME_WARN_THRESHOLD      == EnvGet("TOOL_NAME_WARN_THRESHOLD", 4)
TOOL_NAME_BLOCK_THRESHOLD     == EnvGet("TOOL_NAME_BLOCK_THRESHOLD", 7)
TOOL_RESULT_MAX_CHARS         == EnvGet("TOOL_RESULT_MAX_CHARS", 15000)

TOOL_NAME_WARN_OVERRIDES  == [browser |-> 10]
TOOL_NAME_BLOCK_OVERRIDES == [browser |-> 20]

\* dict.get(key, default) on a TLA+ function
Get(d, key, default) == IF key \in DOMAIN d THEN d[key] ELSE default

EFFORT_ROUNDS ==
    [ quick  |-> EnvGet("AGENT_QUICK_MAX_TOOL_ROUNDS", 5),
      normal |-> DEFAULT_MAX_TOOL_ROUNDS,
      deep   |-> DEEP_RESEARCH_MAX_TOOL_ROUNDS ]

EFFORT_MODELS ==
    [ quick  |-> EnvGet("OPENROUTER_MODEL_QUICK", "openai/gpt-oss-120b"),
      normal |-> EnvGet("OPENROUTER_MODEL_NORMAL", "deepseek/deepseek-v3.2"),
      deep   |-> EnvGet("OPENROUTER_MODEL_DEEP", "z-ai/glm-5") ]

EFFORT_MODELS_FALLBACK ==
    [ quick  |-> EnvGet("OPENROUTER_MODEL_QUICK_FALLBACK", "deepseek/deepseek-v3.2"),
      normal |-> EnvGet("OPENROUTER_MODEL_NORMAL_FALLBACK", "deepseek/deepseek-v3.2"),
      deep   |-> EnvGet("OPENROUTER_MODEL_DEEP_FALLBACK", "deepseek/deepseek-v3.2") ]

Efforts == {"quick", "normal", "deep"}

(***************************************************************************)
(* Strings.  A string whose characters matter (a query, an exception       *)
(* message) is a sequence of one-character strings.  A text whose length   *)
(* matters (an observation) is a sequence of segments [k, name, c, n]: k   *)
(* the kind of the piece, name and c the tool name and the number that     *)
(* were formatted into it, n its length in characters.                     *)
(***************************************************************************)
IsSubstr(p, s) ==
    \E i \in 1..(Len(s) + 1) :
        /\ i + Len(p) - 1 <= Len(s)
        /\ SubSeq(s, i, i + Len(p) - 1) = p

UpperToLower ==
    LET UPPER == <<"A", "B", "C", "D", "E", "F", "G", "H", "I", "J", "K", "L", "M", "N", "O", "P", "Q", "R", "S", "T", "U", "V", "W", "X", "Y", "Z">>
        LOWER == <<"a", "b", "c", "d", "e", "f", "g", "h", "i", "j", "k", "l", "m", "n", "o", "p", "q", "r", "s", "t", "u", "v", "w", "x", "y", "z">>
    IN  [ c \in { UPPER[i] : i \in 1..Len(UPPER) } |->
            LOWER[CHOOSE i \in 1..Len(UPPER) : UPPER[i] = c] ]

\* str.lower()
Lower(s) == [ i \in 1..Len(s) |-> Get(UpperToLower, s[i], s[i]) ]

RECURSIVE LStrip(_)
LStrip(s) == IF s # <<>> /\ Head(s) = " " THEN LStrip(Tail(s)) ELSE s

RECURSIVE RStrip(_)
RStrip(s) ==
    IF s # <<>> /\ s[Len(s)] = " " THEN RStrip(SubSeq(s, 1, Len(s) - 1)) ELSE s

\* str.strip()
Strip(s) == RStrip(LStrip(s))

Seg(k, name, c, n) == [k |-> k, name |-> name, c |-> c, n |-> n]

RECURSIVE TextLen(_)
TextLen(t) == IF t = <<>> THEN 0 ELSE Head(t).n + TextLen(Tail(t))

\* text[:m]
RECURSIVE Prefix(_, _)
Prefix(t, m) ==
    IF t = <<>> \/ m <= 0 THEN <<>>
    ELSE IF Head(t).n <= m
         THEN <<Head(t)>> \o Prefix(Tail(t), m - Head(t).n)
         ELSE <<Seg(Head(t).k, Head(t).name, Head(t).c, m)>>

\* the pieces of a text, by kind
Kinds(t) == { t[i].k : i \in 1..Len(t) }

NameLen ==
    [ browser |-> 7, memory_search |-> 13, memory_add |-> 10, no_such_tool |-> 12 ]

Digits(n) == IF n < 10 THEN 1 ELSE IF n < 100 THEN 2 ELSE IF n < 1000 THEN 3 ELSE 4

\* f"{overflow:,}"
DigitsGrouped(n) == IF n < 1000 THEN Digits(n) ELSE Digits(n) + 1

(***************************************************************************)
(* agent.py: pure helpers                                                  *)
(***************************************************************************)
DEEP_RESEARCH_KEYWORDS ==
    { <<"d", "e", "e", "p", " ", "r", "e", "s", "e", "a", "r", "c", "h">>,
      <<"l", "o", "n", "g", " ", "t", "h", "i", "n", "k", "i", "n", "g">>,
      <<"t", "h", "o", "r", "o", "u", "g", "h", " ", "r", "e", "s", "e", "a", "r", "c", "h">>,
      <<"c", "o", "m", "p", "r", "e", "h", "e", "n", "s", "i", "v", "e", " ", "r", "e", "s", "e", "a", "r", "c", "h">>,
      <<"e", "x", "h", "a", "u", "s", "t", "i", "v", "e">>,
      <<"d", "e", "e", "p", " ", "d", "i", "v", "e">>,
      <<"e", "x", "t", "e", "n", "s", "i", "v", "e", " ", "r", "e", "s", "e", "a", "r", "c", "h">>,
      <<"a", "s", " ", "m", "a", "n", "y", " ", "s", "o", "u", "r", "c", "e", "s">>,
      <<"e", "v", "e", "r", "y", " ", "r", "e", "l", "e", "v", "a", "n", "t">> }

\* _is_deep_research(query)
is_deep_research(q) ==
    LET s == Lower(Strip(q))
    IN  \E kw \in DEEP_RESEARCH_KEYWORDS : IsSubstr(kw, s)

\* json.dumps(args, sort_keys=True): the items of the dict in key order
KeyOrder == <<"q", "url">>

RECURSIVE SortedItems(_, _)
SortedItems(args, i) ==
    IF i > Len(KeyOrder) THEN <<>>
    ELSE (IF KeyOrder[i] \in DOMAIN args
          THEN << <<KeyOrder[i], args[KeyOrder[i]]>> >>
          ELSE <<>>) \o SortedItems(args, i + 1)

\* _tool_call_hash(name, args): sha256 of "name:canonical-json", taken to be
\* collision free, so the digest is represented by the payload it hashes
tool_call_hash(name, args) == <<name, SortedItems(args, 1)>>

\* a truncation that also cuts a text of exactly max_chars characters
truncate_observation_at_limit(text, max_chars) ==
    IF TextLen(text) < max_chars THEN text
    ELSE LET overflow == TextLen(text) - max_chars
         IN  Prefix(text, max_chars)
               \o <<Seg("truncated", "", overflow, 24 + DigitsGrouped(overflow))>>

\* _truncate_observation(text, max_chars)
truncate_observation(text, max_chars) ==
    IF TextLen(text) <= max_chars THEN text
    ELSE LET overflow == TextLen(text) - max_chars
         IN  Prefix(text, max_chars)
               \o <<Seg("truncated", "", overflow, 24 + DigitsGrouped(overflow))>>

TRANSIENT_CLASSES == {"TimeoutError", "ConnectionError", "OSError"}
TRANSIENT_NAMES == {"ReadTimeout", "ConnectTimeout", "RemoteProtocolError", "ConnectError"}
TRANSIENT_CODES ==
    { <<"4", "2", "9">>,
      <<"5", "0", "0">>,
      <<"5", "0", "2">>,
      <<"5", "0", "3">>,
      <<"5", "0", "4">> }
TRANSIENT_KEYWORDS ==
    { <<"t", "i", "m", "e", "o", "u", "t">>,
      <<"r", "a", "t", "e", " ", "l", "i", "m", "i", "t">>,
      <<"c", "o", "n", "n", "e", "c", "t", "i", "o", "n", " ", "r", "e", "s", "e", "t">>,
      <<"m", "o", "d", "e", "l", " ", "n", "o", "t", " ", "a", "v", "a", "i", "l", "a", "b", "l", "e">>,
      <<"n", "o", " ", "e", "n", "d", "p", "o", "i", "n", "t", "s">>,
      <<"o", "v", "e", "r", "l", "o", "a", "d", "e", "d">> }

\* _is_transient_llm_error(exc); exc = [name, mro, msg]: the name of its type,
\* the names of the classes it is an instance of, and str(exc)
is_transient_llm_error(exc) ==
    IF exc.mro \cap TRANSIENT_CLASSES # {} THEN TRUE
    ELSE IF exc.name \in TRANSIENT_NAMES THEN TRUE
    ELSE IF \E code \in TRANSIENT_CODES : IsSubstr(code, exc.msg) THEN TRUE
    ELSE IF \E kw \in TRANSIENT_KEYWORDS : IsSubstr(kw, Lower(exc.msg)) THEN TRUE
    ELSE FALSE

\* _create_llm(effort, model): the model the client is built for (an API key
\* is configured, so construction itself does not fail)
create_llm(effort, model) ==
    IF model = None
    THEN LET default_model == EnvGet("OPENROUTER_MODEL", "deepseek/deepseek-v3.2")
             m == Get(EFFORT_MODELS, effort, "")
         IN  IF m # "" THEN m ELSE default_model
    ELSE model

\* _count_tool_rounds(messages)
count_tool_rounds(msgs) ==
    Cardinality({ i \in 1..Len(msgs) : msgs[i].tool_calls # <<>> })

\* _system_prompt(max_tool_rounds, effort) followed by the budget line that
\* _llm_call appends: the parts of the system directive that vary
system_directive(max_rounds, effort, msgs) ==
    LET guidance    == IF effort \in Efforts THEN effort ELSE "normal"
        used_rounds == count_tool_rounds(msgs)
        remaining   == Max(0, max_rounds - used_rounds)
    IN  [ kind      |-> "system",
          gathered  |-> <<>>,
          guidance  |-> guidance,
          at_most   |-> max_rounds,
          used_rounds |-> used_rounds,
          remaining |-> remaining,
          budget    |-> IF remaining <= 2 /\ used_rounds > 0 THEN "running_low_wrap_up"
                        ELSE IF remaining = 0 THEN "no_calls_left"
                        ELSE "none" ]

\* a ceiling that leaves room for one more node
recursion_limit_plus_one(max_tool_rounds) == 3 + max_tool_rounds * 2

\* _recursion_limit(max_tool_rounds)
recursion_limit(max_tool_rounds) == 2 + max_tool_rounds * 2

(***************************************************************************)
(* Bounds of the exploration and the environment's choices                 *)
(***************************************************************************)
\* tool call requests in one assistant message
MaxBatch == 2
\* tool call requests the model emits in one Run
MaxCalls == 4
\* distinct argument values the model uses in one Run
MaxArgs == 4

Queries ==
    { <<"w", "h", "a", "t", " ", "i", "s", " ", "t", "l", "a">>,
      <<" ", "D", "e", "e", "p", " ", "D", "i", "v", "e", " ", "i", "n", "t", "o", " ", "t", "l", "a", " ">> }

\* the tool registry (plugin_loader.load_plugins) and the plugin tags
TOOLS_BY_NAME == {"browser", "memory_search", "memory_add"}
TOOL_PLUGIN_TAGS ==
    [ browser |-> {"research"}, memory_search |-> {"memory"}, memory_add |-> {"memory"} ]

\* exceptions a model invocation raises
LLMErrors ==
    { [name |-> "TimeoutError", mro |-> {"TimeoutError", "OSError", "Exception"}, msg |-> <<>>],
      [name |-> "APIError", mro |-> {"Exception"}, msg |-> <<"R", "a", "t", "e", " ", "L", "i", "m", "i", "t", " ", "h", "i", "t">>],
      [name |-> "APIError", mro |-> {"Exception"}, msg |-> <<"i", "d", " ", "1", "5", "0", "0", "4">>],
      [name |-> "ValueError", mro |-> {"Exception"}, msg |-> <<"b", "a", "d", " ", "k", "e", "y">>] }

GraphRecursionError ==
    [name |-> "GraphRecursionError", mro |-> {"RecursionError", "Exception"}, msg |-> <<>>]

NoExc == [name |-> "", mro |-> {}, msg |-> <<>>]

\* The collaborators of a Run (model provider, tools, caller) are explored
\* one profile at a time.  A profile fixes the tool names the model asks for,
\* how many different argument values it uses, the lengths of the texts the
\* tools return (empty, short, longer than the cap), which collaborators may
\* fail, and the caller: the Telegram worker supplies a progress callback and
\* has a task in its thread's context, a direct call has neither.
Profiles ==
    { [ tools |-> {"memory_search"}, args |-> 1, lens |-> {40},
        faults |-> {"llm", "tool"}, on_progress |-> <<"on_progress">>, task_id |-> 1 ],
      [ tools |-> {"memory_search", "browser"}, args |-> 2, lens |-> {40},
        faults |-> {}, on_progress |-> <<>>, task_id |-> 0 ],
      [ tools |-> {"browser"}, args |-> MaxArgs, lens |-> {40},
        faults |-> {}, on_progress |-> <<>>, task_id |-> 0 ],
      [ tools |-> {"browser", "no_such_tool"}, args |-> 1, lens |-> {40},
        faults |-> {"tool"}, on_progress |-> <<"on_progress">>, task_id |-> 1 ],
      [ tools |-> {"memory_search"}, args |-> 3, lens |-> {0, TOOL_RESULT_MAX_CHARS, TOOL_RESULT_MAX_CHARS + 2},
        faults |-> {}, on_progress |-> <<"on_progress">>, task_id |-> 1 ],
      [ tools |-> {"browser"}, args |-> 1, lens |-> {40},
        faults |-> {"tool", "memory", "callback"}, on_progress |-> <<"on_progress">>, task_id |-> 0 ] }

HumanMessage(content) ==
    [type |-> "human", content |-> content, tool_calls |-> <<>>, tool_call_id |-> 0]
AIMessage(content, tool_calls) ==
    [type |-> "ai", content |-> content, tool_calls |-> tool_calls, tool_call_id |-> 0]
ToolMessage(content, call_id) ==
    [type |-> "tool", content |-> content, tool_calls |-> <<>>, tool_call_id |-> call_id]

\* all tool call requests of a message sequence, in order
RECURSIVE CallsOf(_)
CallsOf(msgs) ==
    IF msgs = <<>> THEN <<>> ELSE Head(msgs).tool_calls \o CallsOf(Tail(msgs))

\* argument values are interchangeable: a request reuses a value already seen
\* in the Run or takes the next unused one
NextCalls(seen) ==
    LET qs   == { seen[i].args.q : i \in 1..Len(seen) } \cup {0}
        maxq == CHOOSE m \in qs : \A x \in qs : x <= m
    IN  { [name |-> nm, args |-> [q |-> a], id |-> Len(seen) + 1] :
            nm \in env.tools, a \in 1..Min(Min(MaxArgs, env.args), maxq + 1) }

RECURSIVE ExtendBatch(_, _, _)
ExtendBatch(prev, batch, room) ==
    IF room <= 0 THEN {batch}
    ELSE {batch} \cup UNION { ExtendBatch(prev, Append(batch, c), room - 1) :
                                c \in NextCalls(prev \o batch) }

\* the non-empty batches of tool call requests the model may emit next
ToolCallsFrom(prev) ==
    ExtendBatch(prev, <<>>, Min(MaxBatch, MaxCalls - Len(prev))) \ {<<>>}

\* replies of the model to a message sequence
LLMReplies(msgs) ==
    { AIMessage(<<Seg("answer", "", 0, 20)>>, <<>>), AIMessage(<<>>, <<>>) }
      \cup { AIMessage(<<>>, tc) : tc \in ToolCallsFrom(CallsOf(msgs)) }

NoPrompt ==
    [ kind |-> "", guidance |-> "", at_most |-> 0, used_rounds |-> 0, remaining |-> 0,
      budget |-> "", gathered |-> <<>> ]

IdleRun ==
    /\ pc = "idle"
    /\ run = [ query |-> <<>>, requested |-> "", effort |-> "", max_rounds |-> 0,
               recursion_limit |-> 0, task_id |-> 0 ]
    /\ messages = <<>>
    /\ all_messages = <<>>
    /\ steps = 0
    /\ thread_local = [on_progress |-> <<>>, tool_call_counts |-> <<>>, tool_name_counts |-> <<>>]
    /\ idx = 0
    /\ result = <<>>
    /\ last_call =
         [ name |-> "", args |-> [q |-> 0], id |-> 0, known |-> FALSE, count |-> 0,
           name_count |-> 0, verdict |-> "", blocked |-> FALSE, invoked |-> FALSE,
           raised |-> FALSE, output |-> <<>>, observation |-> <<>>, content |-> <<>>,
           archived |-> "no", notified |-> "no" ]
    /\ llm_log = <<>>
    /\ last_prompt = NoPrompt
    /\ outcome = [kind |-> "none", text |-> <<>>, exc |-> NoExc]
    /\ effects = [memory |-> <<>>, progress |-> <<>>, heartbeats |-> 0]

InitRun ==
    /\ IdleRun
    /\ pool = <<>>

(***************************************************************************)
(* run_agent: entry                                                        *)
(***************************************************************************)
EmptyDict == [x \in {} |-> 0]

\* an upgrade that overrides every requested tier
effective_effort_any_tier(query, effort) ==
    IF is_deep_research(query) THEN "deep" ELSE effort

\* the effort the Run works with (auto-upgrade of "normal" on deep phrases)
effective_effort(query, effort) ==
    IF effort = "normal" /\ is_deep_research(query) THEN "deep" ELSE effort

\* an entry that forgets the caller's callback
reset_thread_local_drops_callback(old, on_progress) ==
    [ on_progress      |-> <<>>,
      tool_call_counts |-> <<EmptyDict>>,
      tool_name_counts |-> <<EmptyDict>> ]

\* an entry that leaves the counter tables of the thread as they are
reset_thread_local_keeps_counts(old, on_progress) ==
    [ on_progress      |-> on_progress,
      tool_call_counts |-> old.tool_call_counts,
      tool_name_counts |-> old.tool_name_counts ]

\* run_agent's first three statements: the callback and two empty tables
reset_thread_local(old, on_progress) ==
    [ on_progress      |-> on_progress,
      tool_call_counts |-> <<EmptyDict>>,
      tool_name_counts |-> <<EmptyDict>> ]

RunAgent(query, ctx, effort_arg) ==
    /\ pc = "idle"
    /\ LET effort     == effective_effort(query, effort_arg)
           max_rounds == Get(EFFORT_ROUNDS, effort, DEFAULT_MAX_TOOL_ROUNDS)
           first      == <<HumanMessage(<<Seg("query", "", 0, Len(query))>>)>>
       IN  /\ thread_local' = reset_thread_local(thread_local, ctx.on_progress)
           /\ run' = [ query           |-> query,
                       requested       |-> effort_arg,
                       effort          |-> effort,
                       max_rounds      |-> max_rounds,
                       recursion_limit |-> recursion_limit(max_rounds),
                       task_id         |-> ctx.task_id ]
           /\ messages' = first
           /\ all_messages' = first
    /\ pc' = "llm_call"
    /\ steps' = 0
    /\ UNCHANGED <<idx, result, last_call, llm_log, last_prompt, outcome, effects, env, pool>>
    /\ UNCHANGED gateVars

(***************************************************************************)
(* The graph: llm_call -> (tool_node -> llm_call)* -> END, under LangGraph's*)
(* recursion limit.  The limit counts node executions: once `limit` nodes  *)
(* have run and the graph has not come to rest before the next tick,       *)
(* stream() raises GraphRecursionError, after yielding the last value.     *)
(***************************************************************************)
\* a router that sends every reply to the tool node
should_continue_to_tools(msgs) == IF msgs = <<>> THEN "END" ELSE "tool_node"

\* _should_continue(state)
should_continue(msgs) ==
    IF msgs = <<>> THEN "END"
    ELSE IF msgs[Len(msgs)].tool_calls # <<>> THEN "tool_node" ELSE "END"

\* the next tick of the graph after `done` node executions
Tick(done, limit, next) == IF done >= limit THEN "out_of_steps" ELSE next

\* an except clause that re-raises whatever leaves agent.stream
on_stream_error_reraise(exc) == "raise"

\* run_agent's except clause around agent.stream
on_stream_error(exc) ==
    IF exc.name = "GraphRecursionError" THEN "fallback_summary" ELSE "raise"

Returned(text) == [kind |-> "returned", text |-> text, exc |-> NoExc]
Raised(exc)    == [kind |-> "raised", text |-> <<>>, exc |-> exc]

\* a handler that answers every failure of the stream with a summary
StreamRaises_summarise(exc) ==
    /\ pc' = "fallback"
    /\ outcome' = outcome

\* an exception leaves agent.stream
StreamRaises(exc) ==
    IF on_stream_error(exc) = "fallback_summary"
    THEN /\ pc' = "fallback"
         /\ outcome' = outcome
    ELSE /\ pc' = "done"
         /\ outcome' = Raised(exc)

\* what run_agent sees once `done` nodes have run, the graph's edges leading
\* to `next`, and msgs being the last streamed value
AfterNode(msgs, done, next) ==
    LET t == Tick(done, run.recursion_limit, next)
    IN  IF t = "out_of_steps" THEN StreamRaises(GraphRecursionError)
        ELSE IF t = "END"
        THEN /\ pc' = "done"
             /\ outcome' = Returned(IF msgs = <<>> THEN <<>> ELSE msgs[Len(msgs)].content)
        ELSE /\ pc' = t
             /\ outcome' = outcome

(***************************************************************************)
(* _llm_call                                                               *)
(***************************************************************************)
LLMOutcomes(msgs) ==
    { [raised |-> FALSE, reply |-> r, exc |-> NoExc] : r \in LLMReplies(msgs) }
      \cup { [raised |-> TRUE, reply |-> AIMessage(<<>>, <<>>), exc |-> e] :
               e \in IF "llm" \in env.faults THEN LLMErrors ELSE {} }

\* a fallback tried on every error, transient or not
should_fallback_any_error(effort, primary_model, exc) ==
    LET fallback_model == Get(EFFORT_MODELS_FALLBACK, effort, "")
    IN  /\ fallback_model # ""
        /\ fallback_model # primary_model

\* the except clause of _llm_call: is the fallback model tried?
should_fallback(effort, primary_model, exc) ==
    LET fallback_model == Get(EFFORT_MODELS_FALLBACK, effort, "")
    IN  /\ fallback_model # ""
        /\ fallback_model # primary_model
        /\ is_transient_llm_error(exc)

Invocation(model, o) ==
    [model |-> model, raised |-> o.raised, exc |-> o.exc, reply |-> o.reply]

\* a cascading retry: the fallback's error sends the call back to the primary
llm_invoke_cascading(effort, o1, o2) ==
    LET primary_model  == create_llm(effort, None)
        fallback_model == Get(EFFORT_MODELS_FALLBACK, effort, "")
        first          == Invocation(primary_model, o1)
    IN  IF ~o1.raised
        THEN [log |-> <<first>>, res |-> o1]
        ELSE IF fallback_model # "" /\ is_transient_llm_error(o1.exc)
        THEN IF o2.raised
             THEN [log |-> <<first, Invocation(fallback_model, o2), first>>, res |-> o1]
             ELSE [log |-> <<first, Invocation(fallback_model, o2)>>, res |-> o2]
        ELSE [log |-> <<first>>, res |-> o1]

\* the invocations of one _llm_call and its result, given what the primary
\* (o1) and, if tried, the fallback (o2) invocation do
llm_invoke(effort, o1, o2) ==
    LET primary_model == create_llm(effort, None)
    IN  IF ~o1.raised
        THEN [log |-> <<Invocation(primary_model, o1)>>, res |-> o1]
        ELSE IF should_fallback(effort, primary_model, o1.exc)
        THEN [log |-> << Invocation(primary_model, o1),
                         Invocation(create_llm(effort, EFFORT_MODELS_FALLBACK[effort]), o2) >>,
              res |-> o2]
        ELSE [log |-> <<Invocation(primary_model, o1)>>, res |-> o1]

LlmCall ==
    /\ pc = "llm_call"
    /\ LET max_rounds == IF run.max_rounds # 0 THEN run.max_rounds ELSE DEFAULT_MAX_TOOL_ROUNDS
           effort     == IF run.effort # "" THEN run.effort ELSE "normal"
       IN  /\ last_prompt' = system_directive(max_rounds, effort, messages)
           /\ \E o1 \in LLMOutcomes(messages) :
              \E o2 \in IF Len(llm_invoke(effort, o1, o1).log) = 1
                        THEN {o1} ELSE LLMOutcomes(messages) :
                LET r == llm_invoke(effort, o1, o2)
                IN  /\ llm_log' = r.log
                    /\ IF r.res.raised
                       THEN /\ StreamRaises(r.res.exc)
                            /\ UNCHANGED <<messages, all_messages, steps>>
                       ELSE /\ messages' = Append(messages, r.res.reply)
                            /\ all_messages' = messages'
                            /\ steps' = steps + 1
                            /\ AfterNode(messages', steps', should_continue(messages'))
    /\ UNCHANGED <<run, thread_local, idx, result, last_call, effects, env, pool>>
    /\ UNCHANGED gateVars

(***************************************************************************)
(* _tool_node                                                              *)
(***************************************************************************)
\* name_warn = TOOL_NAME_WARN_OVERRIDES.get(name, TOOL_NAME_WARN_THRESHOLD)
name_warn_threshold(name) == Get(TOOL_NAME_WARN_OVERRIDES, name, TOOL_NAME_WARN_THRESHOLD)

\* a per-name block threshold that ignores the per-tool overrides
name_block_threshold_global(name) == TOOL_NAME_BLOCK_THRESHOLD

\* name_block = TOOL_NAME_BLOCK_OVERRIDES.get(name, TOOL_NAME_BLOCK_THRESHOLD)
name_block_threshold(name) == Get(TOOL_NAME_BLOCK_OVERRIDES, name, TOOL_NAME_BLOCK_THRESHOLD)

\* a governor that looks at the per-name count first
governor_name_first(name, count, name_count) ==
    IF name_count >= name_block_threshold(name) THEN "block_name"
    ELSE IF count >= TOOL_LOOP_BLOCK_THRESHOLD THEN "block_identical"
    ELSE IF name_count >= name_warn_threshold(name) THEN "warn_name"
    ELSE IF count >= TOOL_LOOP_WARN_THRESHOLD THEN "warn_identical"
    ELSE "proceed"

\* a governor that blocks one identical call too late
governor_late(name, count, name_count) ==
    IF count > TOOL_LOOP_BLOCK_THRESHOLD THEN "block_identical"
    ELSE IF name_count >= name_block_threshold(name) THEN "block_name"
    ELSE IF count >= TOOL_LOOP_WARN_THRESHOLD THEN "warn_identical"
    ELSE IF name_count >= name_warn_threshold(name) THEN "warn_name"
    ELSE "proceed"

\* the loop governor: verdict from the two counts, after their increment
governor(name, count, name_count) ==
    IF count >= TOOL_LOOP_BLOCK_THRESHOLD THEN "block_identical"
    ELSE IF name_count >= name_block_threshold(name) THEN "block_name"
    ELSE IF count >= TOOL_LOOP_WARN_THRESHOLD THEN "warn_identical"
    ELSE IF name_count >= name_warn_threshold(name) THEN "warn_name"
    ELSE "proceed"

Blocks == {"block_identical", "block_name"}

UnknownToolText(name) == <<Seg("unknown_tool", name, 0, 14 + Get(NameLen, name, 0))>>

BlockedText(verdict, name, count, name_count) ==
    IF verdict = "block_identical"
    THEN <<Seg("BLOCKED_identical", name, count, 126 + Get(NameLen, name, 0) + Digits(count))>>
    ELSE <<Seg("BLOCKED_name", name, name_count, 226 + Get(NameLen, name, 0) + Digits(name_count))>>

WarningText(verdict, name, count, name_count) ==
    IF verdict = "warn_identical"
    THEN <<Seg("WARNING_identical", name, count, 94 + Get(NameLen, name, 0) + Digits(count))>>
    ELSE IF verdict = "warn_name"
    THEN <<Seg("WARNING_name", name, name_count, 157 + Get(NameLen, name, 0) + Digits(name_count))>>
    ELSE <<>>

\* f"Tool error: {e!r}"
ToolErrorText(name) == <<Seg("tool_error", name, 0, 32)>>

\* what tool.invoke(args) does: returns a text, returns the error envelope of
\* its plugin (ToolResult.to_string: "[browser ERROR] ..."), or raises
ToolOutcomes(name, args) ==
    { [raised |-> FALSE,
       text |-> IF n = 0 THEN <<>> ELSE <<Seg("output", name, args.q, n)>>] :
        n \in env.lens }
      \cup (IF "tool" \in env.faults THEN {[raised |-> TRUE, text |-> <<>>]} ELSE {})
      \cup (IF "tool" \in env.faults /\ name = "browser"
            THEN {[raised |-> FALSE, text |-> <<Seg("browser_error", name, 0, 30)>>]}
            ELSE {})

\* str.strip() of an observation: only a warning suffix that follows an empty
\* tool result begins with white space ("\n\n")
StripText(t) ==
    IF t # <<>> /\ Head(t).k \in {"WARNING_identical", "WARNING_name"}
    THEN <<Seg(Head(t).k, Head(t).name, Head(t).c, Head(t).n - 2)>> \o Tail(t)
    ELSE t

\* obs_str.startswith(("Tool error", "[memory_rag ERROR]", "[browser ERROR]"))
StartsWithErrorPrefix(t) ==
    t # <<>> /\ Head(t).k \in {"tool_error", "memory_rag_error", "browser_error"}

\* a warning that takes the place of the tool's result
observe_warning_only(name, verdict, count, name_count, o) ==
    IF verdict \in Blocks THEN BlockedText(verdict, name, count, name_count)
    ELSE IF WarningText(verdict, name, count, name_count) # <<>>
    THEN WarningText(verdict, name, count, name_count)
    ELSE IF o.raised THEN ToolErrorText(name) ELSE o.text

\* the observation of one request: governor verdict, tool execution, warning
observe(name, verdict, count, name_count, o) ==
    IF verdict \in Blocks THEN BlockedText(verdict, name, count, name_count)
    ELSE (IF o.raised THEN ToolErrorText(name) ELSE o.text)
           \o WarningText(verdict, name, count, name_count)

\* archival that does not look at what the observation says
archives_any_text(name, blocked, observation) ==
    /\ ~blocked
    /\ "research" \in Get(TOOL_PLUGIN_TAGS, name, {})
    /\ "memory_add" \in TOOLS_BY_NAME

\* archival that does not look at the governor's verdict
archives_blocked_too(name, blocked, observation) ==
    /\ "research" \in Get(TOOL_PLUGIN_TAGS, name, {})
    /\ ~StartsWithErrorPrefix(StripText(observation))
    /\ "memory_add" \in TOOLS_BY_NAME

\* is the observation archived to long-term memory?
archives(name, blocked, observation) ==
    /\ ~blocked
    /\ "research" \in Get(TOOL_PLUGIN_TAGS, name, {})
    /\ ~StartsWithErrorPrefix(StripText(observation))
    /\ "memory_add" \in TOOLS_BY_NAME

Incremented(d, k) == [x \in DOMAIN d \cup {k} |-> IF x = k THEN Get(d, k, 0) + 1 ELSE d[x]]

\* getattr(_thread_local, attr, None), replaced by {} when None
Table(opt) == IF opt = <<>> THEN EmptyDict ELSE opt[1]

\* a count that takes requests for unknown tools too
counted_any_name(tl, name, args) ==
    [tl EXCEPT !.tool_call_counts = <<Incremented(Table(@), tool_call_hash(name, args))>>,
               !.tool_name_counts = <<Incremented(Table(@), name)>>]

\* _tool_node's counting: both tables of the calling thread, after a call
counted(tl, name, args) ==
    IF name \in TOOLS_BY_NAME
    THEN [tl EXCEPT !.tool_call_counts = <<Incremented(Table(@), tool_call_hash(name, args))>>,
                    !.tool_name_counts = <<Incremented(Table(@), name)>>]
    ELSE tl

\* results collected newest first
result_prepend(res, m) == <<m>> \o res

\* result.append(ToolMessage(...))
result_append(res, m) == Append(res, m)

\* a loop that gives up on the batch at a request it cannot serve
loop_next_break(i, n, known, raised) == IF known /\ ~raised THEN i + 1 ELSE n

\* for tool_call in tool_calls: the position after request i + 1 of n
loop_next(i, n, known, raised) == i + 1

\* one iteration of the for loop of _tool_node
ToolCall ==
    /\ pc = "tool_node"
    /\ idx < Len(messages[Len(messages)].tool_calls)
    /\ LET tool_call == messages[Len(messages)].tool_calls[idx + 1]
           name      == tool_call.name
           args      == tool_call.args
           known     == name \in TOOLS_BY_NAME
           h         == tool_call_hash(name, args)
           tl        == counted(thread_local, name, args)
           counts    == Table(tl.tool_call_counts)
           ncounts   == Table(tl.tool_name_counts)
           count      == IF known THEN counts[h] ELSE 0
           name_count == IF known THEN ncounts[name] ELSE 0
           verdict    == IF known THEN governor(name, count, name_count) ELSE "unknown"
           blocked    == verdict \in Blocks
           invoked    == known /\ ~blocked
       IN  \E o \in ToolOutcomes(name, args), mem_ok, cb_ok \in BOOLEAN :
             LET observation == IF known THEN observe(name, verdict, count, name_count, o)
                                ELSE UnknownToolText(name)
                 archive     == archives(name, blocked, observation)
                 content     == truncate_observation(observation, TOOL_RESULT_MAX_CHARS)
                 cb          == thread_local.on_progress # <<>>
             IN  /\ invoked \/ o = CHOOSE x \in ToolOutcomes(name, args) : TRUE
                 /\ (archive /\ "memory" \in env.faults) \/ mem_ok
                 /\ (cb /\ "callback" \in env.faults) \/ cb_ok
                 /\ thread_local' = tl
                 /\ result' = result_append(result, ToolMessage(content, tool_call.id))
                 /\ effects' =
                        [ effects EXCEPT
                            !.memory = IF archive /\ mem_ok
                                       THEN Append(@, [ content |-> Prefix(StripText(observation), 12000),
                                                        source  |-> Get(args, "url", "") ])
                                       ELSE @,
                            !.progress = IF cb
                                         THEN Append(@, [ name |-> name, args |-> args,
                                                          observation |-> observation ])
                                         ELSE @ ]
                 /\ last_call' =
                        [ name |-> name, args |-> args, id |-> tool_call.id, known |-> known,
                          count |-> count, name_count |-> name_count, verdict |-> verdict,
                          blocked |-> blocked, invoked |-> invoked,
                          raised |-> invoked /\ o.raised,
                          output |-> IF invoked /\ ~o.raised THEN o.text ELSE <<>>,
                          observation |-> observation, content |-> content,
                          archived |-> IF ~archive THEN "no" ELSE IF mem_ok THEN "saved" ELSE "failed",
                          notified |-> IF ~cb THEN "no" ELSE IF cb_ok THEN "ok" ELSE "raised" ]
    /\ idx' = loop_next(idx, Len(messages[Len(messages)].tool_calls), last_call'.known,
                         last_call'.raised)
    /\ UNCHANGED <<pc, run, messages, all_messages, steps, llm_log, last_prompt, outcome, env, pool>>
    /\ UNCHANGED gateVars

\* the end of _tool_node: heartbeat, then the ToolMessages join the state
ToolNodeReturn ==
    /\ pc = "tool_node"
    /\ idx = Len(messages[Len(messages)].tool_calls)
    /\ \E hb_ok \in BOOLEAN :
         /\ (run.task_id # 0 /\ "heartbeat" \in env.faults) \/ hb_ok
         /\ effects' = [effects EXCEPT !.heartbeats =
                          IF run.task_id # 0 /\ hb_ok THEN @ + 1 ELSE @]
    /\ messages' = messages \o result
    /\ all_messages' = messages'
    /\ steps' = steps + 1
    /\ AfterNode(messages', steps', "llm_call")
    /\ idx' = 0
    /\ result' = <<>>
    /\ UNCHANGED <<run, thread_local, last_call, llm_log, last_prompt, env, pool>>
    /\ UNCHANGED gateVars

(***************************************************************************)
(* _fallback_summary                                                       *)
(***************************************************************************)
RECURSIVE ToolContents(_)
ToolContents(msgs) ==
    IF msgs = <<>> THEN <<>>
    ELSE (IF Head(msgs).type = "tool" /\ Head(msgs).content # <<>>
          THEN <<Prefix(Head(msgs).content, 3000)>>
          ELSE <<>>) \o ToolContents(Tail(msgs))

\* "\n\n---\n\n".join(tool_contents)
RECURSIVE Join(_)
Join(texts) ==
    IF texts = <<>> THEN <<>>
    ELSE IF Len(texts) = 1 THEN texts[1]
    ELSE texts[1] \o <<Seg("separator", "", 0, 7)>> \o Join(Tail(texts))


\* replies of the model to the summary prompt: a text, or empty content
SummaryOutcomes ==
    { [raised |-> FALSE, reply |-> AIMessage(c, <<>>), exc |-> NoExc] :
        c \in { <<Seg("summary", "", 0, 30)>>, <<>> } }
      \cup { [raised |-> TRUE, reply |-> AIMessage(<<>>, <<>>), exc |-> e] :
               e \in IF "llm" \in env.faults THEN LLMErrors ELSE {} }

FallbackSummary ==
    /\ pc = "fallback"
    /\ LET tool_contents == ToolContents(all_messages)
       IN  IF tool_contents = <<>>
           THEN /\ outcome' = Returned(<<Seg("hit_limit_no_data", "", 0, 72)>>)
                /\ UNCHANGED <<llm_log, last_prompt>>
           ELSE \E o \in SummaryOutcomes :
                  /\ last_prompt' = [NoPrompt EXCEPT !.kind = "summary",
                                                     !.gathered = Join(tool_contents)]
                  /\ llm_log' = <<Invocation(create_llm("normal", None), o)>>
                  /\ outcome' = IF o.raised THEN Raised(o.exc)
                                ELSE Returned(<<Seg("hit_limit_notice", "", 0, 61)>> \o o.reply.content)
    /\ pc' = "done"
    /\ UNCHANGED <<run, messages, all_messages, steps, thread_local, idx, result,
                   last_call, effects, env, pool>>
    /\ UNCHANGED gateVars

(***************************************************************************)
(* The Run                                                                 *)
(***************************************************************************)
Init ==
    /\ InitRun
    /\ env \in Profiles
    /\ pending = <<>> /\ pqs = <<>> /\ workers = <<>> /\ bot = <<>>
    /\ tasks = <<>> /\ ask_count = <<>> /\ lock = 0 /\ now = 0

Start == \E q \in Queries, e \in Efforts : RunAgent(q, env, e)

Next ==
    \/ Start
    \/ LlmCall
    \/ ToolCall
    \/ ToolNodeReturn
    \/ FallbackSummary

Spec == Init /\ [][Next]_vars

(***************************************************************************)
(* Runs on the executor: telegram_bot._executor hands each task to a       *)
(* worker thread, which calls run_agent, once per attempt; a thread serves *)
(* one Run after another, and the threads run side by side.  Each thread   *)
(* sees its own attributes of agent._thread_local.                         *)
(***************************************************************************)
\* Runs one worker thread serves
MaxRuns == 2

PoolThreads == {1, 2}
PoolArgs == 1..2
PoolCalls ==
    { [name |-> "memory_search", args |-> [q |-> a]] : a \in PoolArgs }
        \cup { [name |-> "no_such_tool", args |-> [q |-> 1]] }

\* everything of the single Run above, which these threads leave alone
oneRunVars == <<pc, run, messages, all_messages, steps, thread_local, idx, result,
                last_call, llm_log, last_prompt, outcome, effects, env>>

\* a worker thread enters run_agent
PoolRunAgent(t) ==
    /\ pool[t].pc = "idle"
    /\ pool[t].runs < MaxRuns
    /\ pool' = [pool EXCEPT ![t].pc = "running",
                            ![t].calls = 0, ![t].made = EmptyDict, ![t].last = <<>>,
                            ![t].verdict = "",
                            ![t].thread_local = reset_thread_local(@, env.on_progress)]
    /\ UNCHANGED oneRunVars
    /\ UNCHANGED gateVars

\* the thread's Run reaches a tool call in _tool_node
PoolToolCall(t, c) ==
    /\ pool[t].pc = "running"
    /\ pool[t].calls < MaxCalls
    /\ LET tl      == counted(pool[t].thread_local, c.name, c.args)
           known   == c.name \in TOOLS_BY_NAME
           verdict == IF known
                      THEN governor(c.name,
                                    Table(tl.tool_call_counts)[tool_call_hash(c.name, c.args)],
                                    Table(tl.tool_name_counts)[c.name])
                      ELSE "unknown"
       IN  pool' = [pool EXCEPT ![t].thread_local = tl,
                                ![t].calls = @ + 1,
                                ![t].made = Incremented(@, c),
                                ![t].last = <<c>>,
                                ![t].verdict = verdict]
    /\ UNCHANGED oneRunVars
    /\ UNCHANGED gateVars

\* run_agent returns or raises: the thread's tables stay as they are
PoolReturn(t) ==
    /\ pool[t].pc = "running"
    /\ pool' = [pool EXCEPT ![t].pc = "idle", ![t].runs = @ + 1,
                            ![t].calls = 0, ![t].made = EmptyDict, ![t].last = <<>>,
                            ![t].verdict = ""]
    /\ UNCHANGED oneRunVars
    /\ UNCHANGED gateVars

PoolProfiles ==
    { [ tools |-> {"memory_search", "no_such_tool"}, args |-> 2, lens |-> {40}, faults |-> {},
        on_progress |-> <<"on_progress">>, task_id |-> 1 ] }

InitP ==
    /\ IdleRun
    /\ env \in PoolProfiles
    /\ pending = <<>> /\ pqs = <<>> /\ workers = <<>> /\ bot = <<>>
    /\ tasks = <<>> /\ ask_count = <<>> /\ lock = 0 /\ now = 0
    /\ pool = [t \in PoolThreads |->
                 [ pc |-> "idle", runs |-> 0, calls |-> 0, made |-> EmptyDict, last |-> <<>>,
                   verdict |-> "",
                   thread_local |-> [on_progress |-> <<>>, tool_call_counts |-> <<>>,
                                     tool_name_counts |-> <<>>] ]]

NextP ==
    \/ \E t \in PoolThreads : PoolRunAgent(t)
    \/ \E t \in PoolThreads, c \in PoolCalls : PoolToolCall(t, c)
    \/ \E t \in PoolThreads : PoolReturn(t)

SpecRuns == InitP /\ [][NextP]_vars

\* calls to the tool `name` made so far in the Run, over the arguments 1..k
RECURSIVE MadeByName(_, _, _)
MadeByName(made, name, k) ==
    IF k = 0 THEN 0
    ELSE Get(made, [name |-> name, args |-> [q |-> k]], 0) + MadeByName(made, name, k - 1)

(***************************************************************************)
(* The human-input gate: human_input.py, the ask_human tool, and the       *)
(* front end's on_message                                                  *)
(***************************************************************************)
\* ask_human calls one worker thread makes
MaxAskCalls == 2
\* text messages the user sends
MaxMessages == 2

Workers == {1, 2}
Chats   == {1, 2}
Answers == {"A", "B"}

MAX_ASKS_PER_TASK == EnvGet("MAX_ASKS_PER_TASK", 2)
MAX_ASK_COUNT_ENTRIES == 500

HUMAN == "human_user"
AGENT == "agent_user"

NO_ANSWER      == "(no answer - user did not reply within the timeout)"
NO_SESSION     == "[human_input] No active Telegram session"
NOT_SENT_CAP   == "(Question not sent - maximum questions per task reached)"
NOT_SENT_GATE  == "(Question not sent to user - make this assumption instead)"

IdleWorker(chat_id, task_id) ==
    [ pc |-> "idle", chat_id |-> chat_id, task_id |-> task_id, calls |-> 0,
      pending |-> 0, answered |-> FALSE, sent |-> FALSE, ret |-> "" ]

IdleBot ==
    [ pc |-> "idle", chat_id |-> 0, text |-> "", pq |-> 0, handled |-> 0, log |-> <<>>,
      stale |-> {} ]

InitGate ==
    /\ pending = [c \in {} |-> 0]
    /\ pqs = <<>>
    /\ \E c \in env.sessions : workers = [w \in Workers |-> IdleWorker(IF w = 1 THEN 1 ELSE c, w)]
    /\ bot = IdleBot
    /\ tasks = [t \in Workers |->
                  [status |-> "in_progress", assignee_id |-> AGENT, pending_question |-> "",
                   heartbeat_at |-> <<>>, updated_at |-> 0]]
    \* the tasks created after the workers' tasks that have asked a question
    /\ ask_count = [t \in (Cardinality(Workers) + 1)..(Cardinality(Workers) + env.asked) |-> 1]
    /\ lock = 0
    /\ now = 0

Remove(d, k) == [x \in DOMAIN d \ {k} |-> d[x]]
Put(d, k, v) == [x \in DOMAIN d \cup {k} |-> IF x = k THEN v ELSE d[x]]

\* a registration that wakes the waiter it supersedes
register_wakes_previous(chat_id, question, task_id) ==
    LET pq  == [ event |-> FALSE, answer |-> <<>>, chat_id |-> chat_id,
                 question |-> question, task_id |-> task_id, created_at |-> now ]
        old == IF chat_id \in DOMAIN pending
               THEN [pqs EXCEPT ![pending[chat_id]].event = TRUE] ELSE pqs
    IN  [ pqs |-> Append(old, pq), pending |-> Put(pending, chat_id, Len(pqs) + 1),
          pq  |-> Len(pqs) + 1 ]

\* human_input.register(chat_id, question, task_id): the new registry and heap
register(chat_id, question, task_id) ==
    LET pq == [ event |-> FALSE, answer |-> <<>>, chat_id |-> chat_id,
                question |-> question, task_id |-> task_id, created_at |-> now ]
    IN  [ pqs |-> Append(pqs, pq), pending |-> Put(pending, chat_id, Len(pqs) + 1),
          pq  |-> Len(pqs) + 1 ]

\* human_input.has_pending(chat_id)
has_pending(chat_id) == chat_id \in DOMAIN pending

\* human_input.cleanup(chat_id): _pending.pop(chat_id, None)
cleanup(chat_id) == Remove(pending, chat_id)

\* _cleanup_ask_count(): evict the older half once the table is too large
cleanup_ask_count(d) ==
    IF Cardinality(DOMAIN d) > MAX_ASK_COUNT_ENTRIES
    THEN LET half == Cardinality(DOMAIN d) \div 2
             keep == { t \in DOMAIN d : Cardinality({ u \in DOMAIN d : u < t }) >= half }
         IN  [t \in keep |-> d[t]]
    ELSE d

\* task_service.update_task(task_id, status, assignee_id, pending_question)
update_task(task_id, status, assignee_id, pending_question) ==
    [ tasks EXCEPT ![task_id] = [ @ EXCEPT !.status = status,
                                           !.assignee_id = assignee_id,
                                           !.pending_question = pending_question,
                                           !.updated_at = now ] ]

\* a return value that ignores how the wait ended
ask_result_ignores_wait(answered, answer) ==
    IF answer = <<>> THEN NO_ANSWER ELSE answer[1]

\* the value ask_human returns after its wait
ask_result(answered, answer) ==
    IF ~answered \/ answer = <<>> THEN NO_ANSWER ELSE answer[1]

Question(w) == IF w = 1 THEN "Q1" ELSE "Q2"

\* ask_human, up to the per-task cap
AskBegin(w) ==
    /\ workers[w].pc = "idle"
    /\ workers[w].calls < MaxAskCalls
    /\ ask_count' = cleanup_ask_count(ask_count)
    /\ LET me == workers[w]
       IN  IF me.chat_id = 0
           THEN workers' = [workers EXCEPT ![w].ret = NO_SESSION, ![w].calls = @ + 1,
                                           ![w].pending = 0, ![w].answered = FALSE,
                                           ![w].sent = FALSE]
           ELSE IF me.task_id # 0 /\ Get(ask_count', me.task_id, 0) >= MAX_ASKS_PER_TASK
           THEN workers' = [workers EXCEPT ![w].ret = NOT_SENT_CAP, ![w].calls = @ + 1,
                                           ![w].pending = 0, ![w].answered = FALSE,
                                           ![w].sent = FALSE]
           ELSE workers' = [workers EXCEPT ![w].pc = "evaluate", ![w].ret = "",
                                           ![w].pending = 0, ![w].answered = FALSE,
                                           ![w].sent = FALSE]
    /\ UNCHANGED <<pending, pqs, bot, tasks>>
    /\ UNCHANGED <<runVars, lock, now>>

\* the evaluator gate (_should_ask_user), then the count of questions sent
AskEvaluate(w) ==
    /\ workers[w].pc = "evaluate"
    /\ \E allowed \in BOOLEAN :
         IF ~allowed
         THEN /\ workers' = [workers EXCEPT ![w].pc = "idle", ![w].ret = NOT_SENT_GATE,
                                            ![w].calls = @ + 1]
              /\ UNCHANGED ask_count
         ELSE /\ workers' = [workers EXCEPT ![w].pc = "mark"]
              /\ ask_count' = IF workers[w].task_id # 0
                              THEN Incremented(ask_count, workers[w].task_id)
                              ELSE ask_count
    /\ UNCHANGED <<pending, pqs, bot, tasks>>
    /\ UNCHANGED <<runVars, lock, now>>

\* the task is marked waiting_for_human and handed to the human
AskMark(w) ==
    /\ workers[w].pc = "mark"
    /\ \E db_ok \in BOOLEAN :
         /\ "db" \in env.faults \/ db_ok
         /\ tasks' = IF workers[w].task_id # 0 /\ db_ok
                     THEN update_task(workers[w].task_id, "waiting_for_human", HUMAN, Question(w))
                     ELSE tasks
    /\ workers' = [workers EXCEPT ![w].pc = "register"]
    /\ UNCHANGED <<pending, pqs, bot, ask_count>>
    /\ UNCHANGED <<runVars, lock, now>>

\* pending = _human_input.register(chat_id, question, task_id)
Registering(w) ==
    /\ workers[w].pc = "register"
    /\ LET r == register(workers[w].chat_id, Question(w), workers[w].task_id)
       IN  /\ pqs' = r.pqs
           /\ pending' = r.pending
           /\ workers' = [workers EXCEPT ![w].pc = "send", ![w].pending = r.pq]
    /\ UNCHANGED <<bot, tasks, ask_count>>
    /\ UNCHANGED <<runVars, now>>

\* the registration with its critical section taken as one step
AskRegister(w) ==
    /\ Registering(w)
    /\ UNCHANGED lock

\* the question goes to the chat; a failure to send is swallowed
AskSend(w) ==
    /\ workers[w].pc = "send"
    /\ \E send_ok \in BOOLEAN :
         /\ "send" \in env.faults \/ send_ok
         /\ workers' = [workers EXCEPT ![w].pc = "wait", ![w].sent = send_ok]
    /\ UNCHANGED <<pending, pqs, bot, tasks, ask_count>>
    /\ UNCHANGED <<runVars, lock, now>>

\* pending.event.wait(timeout) returns True: the event is set
AskWake(w) ==
    /\ workers[w].pc = "wait"
    /\ pqs[workers[w].pending].event
    /\ workers' = [workers EXCEPT ![w].pc = "restore", ![w].answered = TRUE]
    /\ UNCHANGED <<pending, pqs, bot, tasks, ask_count>>
    /\ UNCHANGED <<runVars, lock, now>>

\* pending.event.wait(timeout) returns False: the timeout elapsed first
AskTimeout(w) ==
    /\ workers[w].pc = "wait"
    /\ ~pqs[workers[w].pending].event
    /\ workers' = [workers EXCEPT ![w].pc = "restore", ![w].answered = FALSE]
    /\ UNCHANGED <<pending, pqs, bot, tasks, ask_count>>
    /\ UNCHANGED <<runVars, lock, now>>

\* the task goes back to the agent
AskRestore(w) ==
    /\ workers[w].pc = "restore"
    /\ \E db_ok \in BOOLEAN :
         /\ "db" \in env.faults \/ db_ok
         /\ tasks' = IF workers[w].task_id # 0 /\ db_ok
                     THEN update_task(workers[w].task_id, "in_progress", AGENT, "")
                     ELSE tasks
    /\ workers' = [workers EXCEPT ![w].pc = "cleanup"]
    /\ UNCHANGED <<pending, pqs, bot, ask_count>>
    /\ UNCHANGED <<runVars, lock, now>>

\* _human_input.cleanup(chat_id)
CleaningUp(w) ==
    /\ workers[w].pc = "cleanup"
    /\ pending' = cleanup(workers[w].chat_id)
    /\ workers' = [workers EXCEPT ![w].pc = "return"]
    /\ UNCHANGED <<pqs, bot, tasks, ask_count>>
    /\ UNCHANGED <<runVars, now>>

AskCleanup(w) ==
    /\ CleaningUp(w)
    /\ UNCHANGED lock

AskReturn(w) ==
    /\ workers[w].pc = "return"
    /\ workers' = [workers EXCEPT
                     ![w].pc = "idle",
                     ![w].ret = ask_result(workers[w].answered, pqs[workers[w].pending].answer),
                     ![w].calls = @ + 1]
    /\ UNCHANGED <<pending, pqs, bot, tasks, ask_count>>
    /\ UNCHANGED <<runVars, lock, now>>

\* telegram_bot.on_message: a reply is routed to resolve while a question is
\* pending for the chat; otherwise the text starts (or proposes) a new task
Fate(fate, res) ==
    [ chat_id |-> bot.chat_id, text |-> bot.text, fate |-> fate, pq |-> bot.pq, res |-> res ]

Route(chat_id, text) ==
    /\ IF has_pending(chat_id)
       THEN bot' = [bot EXCEPT !.pc = "resolve", !.chat_id = chat_id, !.text = text, !.pq = 0]
       ELSE bot' = [bot EXCEPT !.pc = "idle", !.handled = @ + 1, !.chat_id = chat_id,
                               !.text = text, !.pq = 0,
                               !.log = Append(@, [ chat_id |-> chat_id, text |-> text,
                                                   fate |-> "new_task", pq |-> 0, res |-> FALSE ])]
    /\ UNCHANGED <<pending, pqs, workers, tasks, ask_count>>
    /\ UNCHANGED <<runVars, now>>

OnMessage(chat_id, text) ==
    /\ bot.pc = "idle"
    /\ bot.handled < MaxMessages
    /\ Route(chat_id, text)
    /\ UNCHANGED lock

\* a lookup that falls back on the question created last
pending_get_latest(chat_id) ==
    IF chat_id \in DOMAIN pending THEN <<pending[chat_id]>>
    ELSE IF pqs # <<>> THEN <<Len(pqs)>> ELSE <<>>

\* _pending.get(chat_id): the registered PendingQuestion, or None
pending_get(chat_id) ==
    IF chat_id \in DOMAIN pending THEN <<pending[chat_id]>> ELSE <<>>

\* resolve: pq = _pending.get(chat_id)
Getting ==
    /\ bot.pc = "resolve"
    /\ IF pending_get(bot.chat_id) # <<>>
       THEN bot' = [bot EXCEPT !.pc = "append", !.pq = pending_get(bot.chat_id)[1]]
       ELSE bot' = [bot EXCEPT !.pc = "idle", !.handled = @ + 1,
                               !.log = Append(@, Fate("dropped", FALSE))]
    /\ UNCHANGED <<pending, pqs, workers, tasks, ask_count>>
    /\ UNCHANGED <<runVars, now>>

\* resolve: pq = _pending.get(chat_id), under the lock
ResolveGet ==
    /\ Getting
    /\ UNCHANGED lock

\* resolve: pq.answer.append(answer)
ResolveAppend ==
    /\ bot.pc = "append"
    /\ pqs' = [pqs EXCEPT ![bot.pq].answer = Append(@, bot.text)]
    /\ bot' = [bot EXCEPT !.pc = "set"]
    /\ UNCHANGED <<pending, workers, tasks, ask_count>>
    /\ UNCHANGED <<runVars, lock, now>>

\* resolve: pq.event.set(); return True
ResolveSet ==
    /\ bot.pc = "set"
    /\ pqs' = [pqs EXCEPT ![bot.pq].event = TRUE]
    /\ bot' = [bot EXCEPT !.pc = "idle", !.handled = @ + 1,
                          !.log = Append(@, Fate("resolved", TRUE))]
    /\ UNCHANGED <<pending, workers, tasks, ask_count>>
    /\ UNCHANGED <<runVars, lock, now>>

\* the second thread's session, what may fail, and how many later tasks have
\* an entry in _ask_count: two sessions with a working database, or one
\* session (the second thread has none) and a database whose updates may raise
GateProfiles ==
    { [ tools |-> {}, args |-> 0, lens |-> {}, faults |-> {}, on_progress |-> <<>>,
        task_id |-> 0, sessions |-> Chats, asked |-> 0 ],
      [ tools |-> {}, args |-> 0, lens |-> {}, faults |-> {"db"}, on_progress |-> <<>>,
        task_id |-> 0, sessions |-> {0}, asked |-> 0 ] }

InitG ==
    /\ InitRun
    /\ env \in GateProfiles
    /\ InitGate

NextG ==
    \/ \E w \in Workers : AskBegin(w)
    \/ \E w \in Workers : AskEvaluate(w)
    \/ \E w \in Workers : AskMark(w)
    \/ \E w \in Workers : AskRegister(w)
    \/ \E w \in Workers : AskSend(w)
    \/ \E w \in Workers : AskWake(w)
    \/ \E w \in Workers : AskTimeout(w)
    \/ \E w \in Workers : AskRestore(w)
    \/ \E w \in Workers : AskCleanup(w)
    \/ \E w \in Workers : AskReturn(w)
    \/ \E c \in Chats, a \in Answers : OnMessage(c, a)
    \/ ResolveGet
    \/ ResolveAppend
    \/ ResolveSet

SpecGate == InitG /\ [][NextG]_vars

\* ---------------------------------------------------------------------------
\* The same threads in a process where MAX_ASK_COUNT_ENTRIES later tasks have
\* each asked a question: the ask-count table is about to be evicted.
\* ---------------------------------------------------------------------------

CapProfiles ==
    { [ tools |-> {}, args |-> 0, lens |-> {}, faults |-> {}, on_progress |-> <<>>,
        task_id |-> 0, sessions |-> {0}, asked |-> MAX_ASK_COUNT_ENTRIES ] }

InitC ==
    /\ InitRun
    /\ env \in CapProfiles
    /\ InitGate

SpecCap == InitC /\ [][NextG]_vars

\* ---------------------------------------------------------------------------
\* The registry with its mutex: every `with _lock:` block of human_input.py is
\* entered in one step and run and left in the next.
\* ---------------------------------------------------------------------------

\* the bot's event loop thread; the worker threads are 1 and 2
BOT == 3
Threads == Workers \cup {BOT}

\* the thread stands before a `with _lock:` block
WantsLock(t) ==
    IF t = BOT THEN bot.pc \in {"has_pending", "resolve", "get_stale"}
    ELSE workers[t].pc \in {"register", "cleanup"}

\* a block that keeps the lock when it is left
lock_release_kept(t) == t

\* leaving the `with _lock:` block
lock_release(t) == 0

\* _lock.__enter__: blocks until the lock is free
LockAcquire(t) ==
    /\ lock = 0
    /\ WantsLock(t)
    /\ lock' = t
    /\ UNCHANGED <<pending, pqs, workers, bot, tasks, ask_count>>
    /\ UNCHANGED <<runVars, now>>

\* register: _pending[chat_id] = pq
RegisterLocked(w) ==
    /\ lock = w
    /\ Registering(w)
    /\ lock' = lock_release(w)

\* cleanup: _pending.pop(chat_id, None)
CleanupLocked(w) ==
    /\ lock = w
    /\ CleaningUp(w)
    /\ lock' = lock_release(w)

\* on_message is called with a text message
Arrive(chat_id, text) ==
    /\ bot.pc = "idle"
    /\ bot.handled < MaxMessages
    /\ bot' = [bot EXCEPT !.pc = "has_pending", !.chat_id = chat_id, !.text = text, !.pq = 0]
    /\ UNCHANGED <<pending, pqs, workers, tasks, ask_count, lock>>
    /\ UNCHANGED <<runVars, now>>

\* has_pending: chat_id in _pending
HasPendingLocked ==
    /\ lock = BOT
    /\ bot.pc = "has_pending"
    /\ Route(bot.chat_id, bot.text)
    /\ lock' = lock_release(BOT)

\* resolve: pq = _pending.get(chat_id)
ResolveGetLocked ==
    /\ lock = BOT
    /\ Getting
    /\ lock' = lock_release(BOT)

\* the job queue runs _send_reminders
ReminderDue ==
    /\ bot.pc = "idle"
    /\ bot' = [bot EXCEPT !.pc = "get_stale"]
    /\ UNCHANGED <<pending, pqs, workers, tasks, ask_count, lock>>
    /\ UNCHANGED <<runVars, now>>

\* a sweep that takes a question for stale at the threshold already
get_stale_inclusive(stale_seconds) ==
    LET cutoff == now - stale_seconds
    IN  { pending[c] : c \in { d \in DOMAIN pending : pqs[pending[d]].created_at <= cutoff } }

\* get_stale: the registered questions created before the cutoff
get_stale(stale_seconds) ==
    LET cutoff == now - stale_seconds
    IN  { pending[c] : c \in { d \in DOMAIN pending : pqs[pending[d]].created_at < cutoff } }

\* _send_reminders: get_stale(stale_seconds=300)
GettingStale ==
    /\ bot.pc = "get_stale"
    /\ bot' = [bot EXCEPT !.pc = "remind", !.stale = get_stale(300)]
    /\ UNCHANGED <<pending, pqs, workers, tasks, ask_count>>
    /\ UNCHANGED <<runVars, now>>

GetStaleLocked ==
    /\ lock = BOT
    /\ GettingStale
    /\ lock' = lock_release(BOT)

\* _send_reminders: one reminder per stale question; a failed send is logged
SendReminders ==
    /\ bot.pc = "remind"
    /\ bot' = [bot EXCEPT !.pc = "idle", !.stale = {}]
    /\ UNCHANGED <<pending, pqs, workers, tasks, ask_count, lock>>
    /\ UNCHANGED <<runVars, now>>

\* the block the holder of the lock is in
CriticalSection(t) ==
    IF t = BOT THEN HasPendingLocked \/ ResolveGetLocked \/ GetStaleLocked
    ELSE RegisterLocked(t) \/ CleanupLocked(t)

\* both worker threads in the same session; the text of a message plays no
\* part in the locking, so every message carries the same text
LockProfiles ==
    { [ tools |-> {}, args |-> 0, lens |-> {}, faults |-> {}, on_progress |-> <<>>,
        task_id |-> 0, sessions |-> {1}, asked |-> 0 ] }

InitL ==
    /\ InitRun
    /\ env \in LockProfiles
    /\ InitGate

NextL ==
    \/ \E w \in Workers : AskBegin(w)
    \/ \E w \in Workers : AskEvaluate(w)
    \/ \E w \in Workers : AskMark(w)
    \/ \E t \in Threads : LockAcquire(t)
    \/ \E w \in Workers : RegisterLocked(w)
    \/ \E w \in Workers : AskSend(w)
    \/ \E w \in Workers : AskWake(w)
    \/ \E w \in Workers : AskTimeout(w)
    \/ \E w \in Workers : AskRestore(w)
    \/ \E w \in Workers : CleanupLocked(w)
    \/ \E w \in Workers : AskReturn(w)
    \/ \E c \in Chats : Arrive(c, "A")
    \/ HasPendingLocked
    \/ ResolveGetLocked
    \/ ResolveAppend
    \/ ResolveSet
    \/ ReminderDue
    \/ GetStaleLocked
    \/ SendReminders

SpecLock == InitL /\ [][NextL]_vars

\* ---------------------------------------------------------------------------
\* The reminder job with time passing: the worker threads of the gate and the
\* job queue, each critical section taken as one step, no message arriving (so
\* every wait ends by its timeout), and a clock that advances in steps of 300 s
\* ---------------------------------------------------------------------------
MaxTicks == 4

\* time.monotonic() advances
TimePasses ==
    /\ now < MaxTicks * 300
    /\ now' = now + 300
    /\ UNCHANGED <<pending, pqs, workers, bot, tasks, ask_count, lock>>
    /\ UNCHANGED runVars

\* get_stale with its critical section taken as one step
GetStale ==
    /\ GettingStale
    /\ UNCHANGED lock

NextS ==
    \/ \E w \in Workers : AskBegin(w)
    \/ \E w \in Workers : AskEvaluate(w)
    \/ \E w \in Workers : AskMark(w)
    \/ \E w \in Workers : AskRegister(w)
    \/ \E w \in Workers : AskSend(w)
    \/ \E w \in Workers : AskTimeout(w)
    \/ \E w \in Workers : AskRestore(w)
    \/ \E w \in Workers : AskCleanup(w)
    \/ \E w \in Workers : AskReturn(w)
    \/ TimePasses
    \/ ReminderDue
    \/ GetStale
    \/ SendReminders

SpecStale == InitL /\ [][NextS]_vars

\* ---------------------------------------------------------------------------
\* The heartbeat watchdog: the worker threads, each running the agent for its
\* task, and the job queue's _check_orphaned_tasks.  Whatever a thread does
\* outside ask_human's wait is taken to last no time: the clock advances only
\* while every thread is blocked in a wait
\* ---------------------------------------------------------------------------
\* task_service.update_heartbeat(task_id)
update_heartbeat(task_id) ==
    IF task_id \in DOMAIN tasks /\ tasks[task_id].status = "in_progress"
    THEN [ tasks EXCEPT ![task_id] = [ @ EXCEPT !.heartbeat_at = <<now>>, !.updated_at = now ] ]
    ELSE tasks

\* task_service.reset_stale_in_progress(timeout_minutes): the task store after
\* the sweep
reset_stale_in_progress(timeout_minutes) ==
    LET cutoff == now - timeout_minutes * 60
        stale(t) == /\ tasks[t].status = "in_progress"
                    /\ \/ tasks[t].heartbeat_at # <<>> /\ tasks[t].heartbeat_at[1] < cutoff
                       \/ tasks[t].heartbeat_at = <<>> /\ tasks[t].updated_at < cutoff
    IN  [ t \in DOMAIN tasks |->
            IF stale(t)
            THEN [ tasks[t] EXCEPT !.status = "pending", !.heartbeat_at = <<>>,
                                   !.updated_at = now ]
            ELSE tasks[t] ]

\* the end of a batch of tool calls in _tool_node: the heartbeat of the
\* thread's task; a failure is swallowed
Heartbeat(w) ==
    /\ workers[w].pc = "idle"
    /\ workers[w].task_id # 0
    /\ tasks' = update_heartbeat(workers[w].task_id)
    /\ tasks' # tasks
    /\ UNCHANGED <<pending, pqs, workers, bot, ask_count>>
    /\ UNCHANGED <<runVars, lock, now>>

\* _check_orphaned_tasks, every 300 s on the job queue
CheckOrphanedTasks ==
    /\ bot.pc = "idle"
    /\ tasks' = reset_stale_in_progress(10)
    /\ tasks' # tasks
    /\ UNCHANGED <<pending, pqs, workers, bot, ask_count>>
    /\ UNCHANGED <<runVars, lock, now>>

\* event.wait(timeout) lasts
WaitLasts ==
    /\ \A w \in Workers : workers[w].pc = "wait"
    /\ TimePasses

NextW ==
    \/ \E w \in Workers : AskBegin(w)
    \/ \E w \in Workers : AskEvaluate(w)
    \/ \E w \in Workers : AskMark(w)
    \/ \E w \in Workers : AskRegister(w)
    \/ \E w \in Workers : AskSend(w)
    \/ \E w \in Workers : AskTimeout(w)
    \/ \E w \in Workers : AskRestore(w)
    \/ \E w \in Workers : AskCleanup(w)
    \/ \E w \in Workers : AskReturn(w)
    \/ \E w \in Workers : Heartbeat(w)
    \/ WaitLasts
    \/ CheckOrphanedTasks

SpecWatch == InitL /\ [][NextW]_vars

\* ---------------------------------------------------------------------------
\* Bot startup: _reset_orphaned_tasks on a task store left by an earlier
\* process, before any worker thread exists
\* ---------------------------------------------------------------------------
\* tasks in the store at startup
MaxTasks == 2

\* a reset that leaves the question on the task
reset_waiting_tasks_keeps_question ==
    LET waiting == { t \in DOMAIN tasks : tasks[t].status = "waiting_for_human" }
    IN  [ tasks |-> [ t \in DOMAIN tasks |->
                        IF t \in waiting
                        THEN [ tasks[t] EXCEPT !.status = "failed", !.assignee_id = None ]
                        ELSE tasks[t] ],
          count |-> Cardinality(waiting) ]

\* task_service.reset_waiting_tasks(): the task store after it and the count
\* it returns
reset_waiting_tasks ==
    LET waiting == { t \in DOMAIN tasks : tasks[t].status = "waiting_for_human" }
    IN  [ tasks |-> [ t \in DOMAIN tasks |->
                        IF t \in waiting
                        THEN [ tasks[t] EXCEPT !.status = "failed", !.assignee_id = None,
                                               !.pending_question = "" ]
                        ELSE tasks[t] ],
          count |-> Cardinality(waiting) ]

\* task_service.reset_foreign_workers(current_worker_id)
reset_foreign_workers(current_worker_id) ==
    LET foreign == { t \in DOMAIN tasks :
                       /\ tasks[t].status = "in_progress"
                       /\ tasks[t].worker_id # current_worker_id }
    IN  [ tasks |-> [ t \in DOMAIN tasks |->
                        IF t \in foreign
                        THEN [ tasks[t] EXCEPT !.status = "pending", !.worker_id = None,
                                               !.heartbeat_at = <<>>, !.updated_at = now ]
                        ELSE tasks[t] ],
          count |-> Cardinality(foreign) ]

\* _reset_orphaned_tasks: count = task_service.reset_waiting_tasks()
ResetWaiting ==
    /\ bot.pc = "startup"
    /\ tasks' = reset_waiting_tasks.tasks
    /\ bot' = [bot EXCEPT !.pc = "foreign", !.handled = reset_waiting_tasks.count]
    /\ UNCHANGED <<pending, pqs, workers, ask_count>>
    /\ UNCHANGED <<runVars, lock, now>>

\* _reset_orphaned_tasks: foreign = task_service.reset_foreign_workers(WORKER_ID)
ResetForeign ==
    /\ bot.pc = "foreign"
    /\ tasks' = reset_foreign_workers("this_process").tasks
    /\ bot' = [bot EXCEPT !.pc = "idle"]
    /\ UNCHANGED <<pending, pqs, workers, ask_count>>
    /\ UNCHANGED <<runVars, lock, now>>

\* the store holds tasks in any status, claimed by an earlier process or by none
InitB ==
    /\ InitRun
    /\ env \in LockProfiles
    /\ pending = <<>> /\ pqs = <<>> /\ workers = <<>> /\ ask_count = <<>>
    /\ lock = 0 /\ now = 0
    /\ bot = [IdleBot EXCEPT !.pc = "startup"]
    /\ tasks \in [ 1..MaxTasks ->
                     [ status : {"pending", "in_progress", "completed", "failed",
                                 "waiting_for_human"},
                       assignee_id : {AGENT, HUMAN},
                       pending_question : {"", "Q1"},
                       worker_id : {"earlier_process", None},
                       heartbeat_at : {<<>>},
                       updated_at : {0} ] ]

NextB ==
    \/ ResetWaiting
    \/ ResetForeign

SpecBoot == InitB /\ [][NextB]_vars

\* ---------------------------------------------------------------------------
\* The front end's worker thread: _run_agent_in_thread and its retry loop.
\* run_research is taken by its outcome (an answer or an exception); the
\* thread's position and locals are pool[t].
\* ---------------------------------------------------------------------------
AGENT_MAX_RETRIES == EnvGet("AGENT_MAX_RETRIES", 2)

\* _is_transient_error(exc), exc = [name, mro, msg] as for the model errors
is_transient_error(exc) ==
    LET keywords == { <<"t", "i", "m", "e", "o", "u", "t">>,
                      <<"r", "a", "t", "e", " ", "l", "i", "m", "i", "t">>,
                      <<"c", "o", "n", "n", "e", "c", "t", "i", "o", "n", " ", "r", "e", "s", "e", "t">> }
        codes    == { <<"4", "2", "9">>, <<"5", "0", "0">>, <<"5", "0", "2">>,
                      <<"5", "0", "3">>, <<"5", "0", "4">> }
    IN  IF exc.mro \cap {"TimeoutError", "ConnectionError", "OSError"} # {} THEN TRUE
        ELSE IF exc.name \in {"ReadTimeout", "ConnectTimeout", "RemoteProtocolError",
                              "ConnectError"} THEN TRUE
        ELSE IF \E code \in codes : IsSubstr(code, exc.msg) THEN TRUE
        ELSE IF \E kw \in keywords : IsSubstr(kw, Lower(exc.msg)) THEN TRUE
        ELSE FALSE

\* what run_research raises: the errors of the model provider, and one the
\* agent retries on but the front end does not
ResearchErrors ==
    LLMErrors \cup
      { [name |-> "APIError", mro |-> {"Exception"},
         msg |-> <<"o", "v", "e", "r", "l", "o", "a", "d", "e", "d">>] }

\* what the task store raises when a write fails
StoreErrors ==
    { [name |-> "OperationalError", mro |-> {"Exception"},
       msg |-> <<"d", "a", "t", "a", "b", "a", "s", "e", " ", "i", "s", " ", "l", "o", "c", "k", "e", "d">>],
      [name |-> "TimeoutError", mro |-> {"TimeoutError", "Exception"},
       msg |-> <<"Q", "u", "e", "u", "e", "P", "o", "o", "l", " ", "t", "i", "m", "e", "o", "u", "t">>] }

\* the exceptions a call of task_service.update_task may end with; NoExc: none
UpdateOutcomes ==
    {NoExc} \cup (IF "store" \in env.faults THEN StoreErrors ELSE {})

\* task_service.update_task(task_id, status=status)
update_task_status(task_id, status) ==
    [tasks EXCEPT ![task_id] = [@ EXCEPT !.status = status, !.updated_at = now]]

\* entry: the task is claimed for this process; a failure is logged
ThreadStart(t) ==
    /\ pool[t].pc = "start"
    /\ \E e \in UpdateOutcomes :
         tasks' = IF e = NoExc
                  THEN [tasks EXCEPT ![pool[t].task_id] =
                          [@ EXCEPT !.status = "in_progress", !.assignee_id = AGENT,
                                    !.worker_id = "this_process", !.updated_at = now]]
                  ELSE tasks
    /\ pool' = [pool EXCEPT ![t].pc = IF 1 + AGENT_MAX_RETRIES > 0 THEN "run_research"
                                      ELSE "answer"]
    /\ UNCHANGED oneRunVars
    /\ UNCHANGED <<pending, pqs, workers, bot, ask_count, lock, now>>

\* body = run_research(...) or "(No answer produced)"; runs records what each
\* call of run_research did
RunResearch(t) ==
    /\ pool[t].pc = "run_research"
    /\ \/ pool' = [pool EXCEPT ![t].pc = "completed", ![t].body = "answer",
                               ![t].runs = Append(@, "returned")]
       \/ \E e \in ResearchErrors :
            pool' = [pool EXCEPT ![t].pc = "except", ![t].exc = e,
                                 ![t].runs = Append(@, IF is_transient_error(e)
                                                       THEN "raised_transient"
                                                       ELSE "raised")]
    /\ UNCHANGED oneRunVars
    /\ UNCHANGED gateVars

\* task_service.update_task(task_id, status=COMPLETED); break
MarkCompleted(t) ==
    /\ pool[t].pc = "completed"
    /\ \E e \in UpdateOutcomes :
         IF e = NoExc
         THEN /\ tasks' = update_task_status(pool[t].task_id, "completed")
              /\ pool' = [pool EXCEPT ![t].pc = "answer"]
         ELSE /\ tasks' = tasks
              /\ pool' = [pool EXCEPT ![t].pc = "except", ![t].exc = e]
    /\ UNCHANGED oneRunVars
    /\ UNCHANGED <<pending, pqs, workers, bot, ask_count, lock, now>>

\* the except clause of the loop: retry after a pause, or give up
OnAttemptError(t) ==
    /\ pool[t].pc = "except"
    /\ LET RETRY_BACKOFF == <<30, 60>>
           MAX_RETRY_BACKOFF_SECONDS == 300
           max_attempts == 1 + AGENT_MAX_RETRIES
           attempt      == pool[t].attempt
           retries_left == max_attempts - 1 - attempt
           raw_backoff  == RETRY_BACKOFF[Min(attempt, Len(RETRY_BACKOFF) - 1) + 1]
           backoff      == Min(raw_backoff, MAX_RETRY_BACKOFF_SECONDS)
       IN  IF is_transient_error(pool[t].exc) /\ retries_left > 0
           THEN /\ pool' = [pool EXCEPT ![t].pc = "run_research", ![t].body = "error",
                                        ![t].attempt = attempt + 1,
                                        ![t].sent = Append(@, "retrying")]
                /\ now' = now + backoff
                /\ tasks' = tasks
           ELSE /\ pool' = [pool EXCEPT ![t].pc = "answer", ![t].body = "error",
                                        ![t].failed = TRUE]
                /\ now' = now
                /\ \E e \in UpdateOutcomes :
                     tasks' = IF e = NoExc
                              THEN update_task_status(pool[t].task_id, "failed")
                              ELSE tasks
    /\ UNCHANGED oneRunVars
    /\ UNCHANGED <<pending, pqs, workers, bot, ask_count, lock>>

\* the final message to the chat; the thread ends
SendAnswer(t) ==
    /\ pool[t].pc = "answer"
    /\ pool' = [pool EXCEPT ![t].pc = "done",
                            ![t].sent = Append(@, IF pool[t].failed THEN "failed"
                                                  ELSE "completed")]
    /\ UNCHANGED oneRunVars
    /\ UNCHANGED gateVars

\* the agent may fail; the task store may fail too, or not
RetryProfiles ==
    { [ tools |-> {}, args |-> 0, lens |-> {}, faults |-> f, on_progress |-> <<"on_progress">>,
        task_id |-> 1 ] : f \in { {"agent"}, {"agent", "store"} } }

\* a task just created for the agent, and the thread launched for it
InitT ==
    /\ IdleRun
    /\ env \in RetryProfiles
    /\ pending = <<>> /\ pqs = <<>> /\ workers = <<>> /\ bot = <<>>
    /\ ask_count = <<>> /\ lock = 0 /\ now = 0
    /\ tasks = [ t \in {1} |->
                   [ status |-> "pending", assignee_id |-> AGENT, pending_question |-> "",
                     worker_id |-> None, heartbeat_at |-> <<>>, updated_at |-> 0 ] ]
    /\ pool = [ t \in {1} |->
                  [ pc |-> "start", task_id |-> 1, attempt |-> 0, failed |-> FALSE,
                    body |-> "", exc |-> NoExc, runs |-> <<>>, sent |-> <<>> ] ]

NextT ==
    \/ \E t \in DOMAIN pool : ThreadStart(t)
    \/ \E t \in DOMAIN pool : RunResearch(t)
    \/ \E t \in DOMAIN pool : MarkCompleted(t)
    \/ \E t \in DOMAIN pool : OnAttemptError(t)
    \/ \E t \in DOMAIN pool : SendAnswer(t)

SpecRetry == InitT /\ [][NextT]_vars

(***************************************************************************)
(* Properties of the human-input gate (specification SpecGate)             *)
(***************************************************************************)
\* C1: two ask_human calls register for the same session one after the other
\* and the first is never resolved; once the first caller has timed out and
\* run its cleanup, the second caller's PendingQuestion, still unanswered, is
\* still the one registered for the session (so a later resolve reaches it).
C1_SecondStaysRegistered ==
    \A w1, w2 \in Workers :
        LET first  == workers[w1]
            second == workers[w2]
        IN  ( /\ first.chat_id = second.chat_id
              /\ first.pending # 0
              /\ second.pending > first.pending
              /\ first.pc \in {"return", "idle"}
              /\ ~first.answered
              /\ pqs[first.pending].answer = <<>>
              /\ second.pc \in {"send", "wait"}
              /\ ~pqs[second.pending].event
              /\ pqs[second.pending].answer = <<>> )
            => ( /\ has_pending(second.chat_id)
                 /\ pending[second.chat_id] = second.pending )

\* C2: an ask_human call that registered its question and whose wait ended
\* because resolve set its event returns exactly the answer text resolve
\* delivered to its PendingQuestion; a call whose wait timed out returns the
\* no-answer sentinel; either way it returns a string and does not raise.
C2_AnswerOrSentinel ==
    \A w \in Workers :
        LET me == workers[w]
        IN  (me.pc = "idle" /\ me.pending # 0) =>
              /\ me.answered =>
                   /\ pqs[me.pending].answer # <<>>
                   /\ me.ret = pqs[me.pending].answer[1]
                   /\ me.ret \in Answers
                   /\ \E i \in 1..Len(bot.log) :
                        /\ bot.log[i].fate = "resolved"
                        /\ bot.log[i].pq = me.pending
                        /\ bot.log[i].chat_id = me.chat_id
                        /\ bot.log[i].text = me.ret
              /\ ~me.answered => me.ret = NO_ANSWER

\* one call answered by resolve and one call that timed out have both returned
C2_Witness ==
    \E w1, w2 \in Workers :
        /\ workers[w1].pc = "idle" /\ workers[w1].pending # 0
        /\ workers[w1].answered /\ workers[w1].ret \in Answers
        /\ workers[w2].pc = "idle" /\ workers[w2].pending # 0
        /\ ~workers[w2].answered /\ workers[w2].ret = NO_ANSWER

(***************************************************************************)
(* Properties of the Run (specification Spec)                              *)
(***************************************************************************)
\* C3: within one Run, every call of a registered tool that is the n-th call
\* with the same name and the same arguments, n >= TOOL_LOOP_BLOCK_THRESHOLD,
\* gets a ToolMessage containing the BLOCKED marker, and the tool is not
\* invoked for it.
C3_IdenticalCallsBlocked ==
    LET calls == CallsOf(messages)
        done  == messages \o result
        same(i) == { j \in 1..i : calls[j].name = calls[i].name /\ calls[j].args = calls[i].args }
    IN  \A i \in 1..Len(calls) :
          (calls[i].name \in TOOLS_BY_NAME /\ Cardinality(same(i)) >= TOOL_LOOP_BLOCK_THRESHOLD) =>
            /\ \A m \in 1..Len(done) :
                 (done[m].type = "tool" /\ done[m].tool_call_id = calls[i].id) =>
                    Kinds(done[m].content) \cap {"BLOCKED_identical", "BLOCKED_name"} # {}
            /\ last_call.id = calls[i].id =>
                 /\ ~last_call.invoked
                 /\ last_call.output = <<>>
                 /\ "BLOCKED_identical" \in Kinds(last_call.observation)

\* the call after the one that reached the threshold has been answered too
C3_Witness ==
    /\ last_call.known
    /\ last_call.count = TOOL_LOOP_BLOCK_THRESHOLD + 1
    /\ ~last_call.invoked
    /\ "BLOCKED_identical" \in Kinds(last_call.observation)

C5_AsStated ==
    (last_call.known /\ last_call.count >= TOOL_LOOP_WARN_THRESHOLD) =>
        IF last_call.count < TOOL_LOOP_BLOCK_THRESHOLD
        THEN /\ last_call.invoked
             /\ Len(last_call.observation) >= 1
             /\ last_call.observation[Len(last_call.observation)].k
                    \in {"WARNING_identical", "WARNING_name"}
        ELSE /\ ~last_call.invoked
             /\ Kinds(last_call.observation) \subseteq {"BLOCKED_identical", "BLOCKED_name"}

\* C5 (amended): a call for which neither count has reached its block
\* threshold and at least one count has reached its warn threshold is
\* executed, and its observation is the tool's result (or its error text)
\* followed by exactly one warning; a call for which either count has reached
\* its block threshold is not executed and its observation is the block
\* string alone.
C5_WarnBeforeBlock ==
    LET c       == last_call
        block_n == IF c.name \in DOMAIN TOOL_NAME_BLOCK_OVERRIDES
                   THEN TOOL_NAME_BLOCK_OVERRIDES[c.name] ELSE TOOL_NAME_BLOCK_THRESHOLD
        warn_n  == IF c.name \in DOMAIN TOOL_NAME_WARN_OVERRIDES
                   THEN TOOL_NAME_WARN_OVERRIDES[c.name] ELSE TOOL_NAME_WARN_THRESHOLD
        genuine == IF c.raised THEN <<Seg("tool_error", c.name, 0, 32)>> ELSE c.output
    IN  c.known =>
          IF c.count >= TOOL_LOOP_BLOCK_THRESHOLD \/ c.name_count >= block_n
          THEN /\ ~c.invoked
               /\ Len(c.observation) = 1
               /\ c.observation[1].k \in {"BLOCKED_identical", "BLOCKED_name"}
          ELSE IF c.count >= TOOL_LOOP_WARN_THRESHOLD \/ c.name_count >= warn_n
          THEN /\ c.invoked
               /\ Len(c.observation) = Len(genuine) + 1
               /\ SubSeq(c.observation, 1, Len(genuine)) = genuine
               /\ c.observation[Len(c.observation)].k \in {"WARNING_identical", "WARNING_name"}
               /\ \A j \in 1..Len(genuine) :
                     genuine[j].k \in {"output", "tool_error", "browser_error"}
          ELSE TRUE

\* a call in the warn range returned a text, and the warning follows it
C5_Witness ==
    /\ last_call.known
    /\ last_call.invoked
    /\ last_call.count >= TOOL_LOOP_WARN_THRESHOLD
    /\ last_call.count < TOOL_LOOP_BLOCK_THRESHOLD
    /\ last_call.output # <<>>
    /\ Len(last_call.observation) = Len(last_call.output) + 1
    /\ last_call.observation[Len(last_call.observation)].k = "WARNING_identical"

C7_NoCallsLeftDirective ==
    (last_prompt.kind = "system" /\ last_prompt.used_rounds >= last_prompt.at_most) =>
        /\ last_prompt.remaining = 0
        /\ last_prompt.budget = "no_calls_left"

\* C8: the LLM_CALL and TOOL_EXEC steps of a Run, a step broken off by an
\* error included, never number more than 2 + 2 x max_rounds, max_rounds being
\* the budget of the effective effort tier; after the ceiling is hit the only
\* model invocation is the one of the fallback summary.
C8_StepCeiling ==
    pc # "idle" =>
      LET tier     == IF run.requested = "normal" /\ is_deep_research(run.query)
                      THEN "deep" ELSE run.requested
          ceiling  == 2 + 2 * EFFORT_ROUNDS[tier]
          broken   == IF pc = "done" /\ outcome.kind = "raised" /\ last_prompt.kind = "system"
                      THEN 1 ELSE 0
          llm_steps  == Cardinality({ i \in 1..Len(messages) : messages[i].type = "ai" })
          tool_steps == Cardinality({ i \in 1..Len(messages) :
                                        /\ messages[i].type = "ai"
                                        /\ messages[i].tool_calls # <<>>
                                        /\ i < Len(messages) })
      IN  /\ run.max_rounds = EFFORT_ROUNDS[tier]
          /\ steps = llm_steps + tool_steps
          /\ steps + broken <= ceiling
          /\ pc \in {"llm_call", "tool_node"} => steps < ceiling
          /\ pc = "fallback" => steps = ceiling
          /\ last_prompt.kind = "summary" =>
               /\ pc = "done"
               /\ steps = ceiling
               /\ Len(llm_log) = 1

\* the ceiling is reached and the Run is about to summarise
C8_Witness ==
    /\ pc = "fallback"
    /\ steps = 2 + 2 * run.max_rounds
    /\ run.effort = "deep"
    /\ run.requested = "normal"

\* C9: in an LLM call whose primary invocation raises: if the error is
\* classified transient and the tier's fallback model differs from the
\* primary, the fallback model is invoked next, and when it replies its reply
\* is the message the step appends and the Run goes on; if the error is not
\* classified transient, nothing else is invoked and run_agent raises that
\* error.
C9_FallbackOnTransient ==
    (last_prompt.kind = "system" /\ llm_log # <<>> /\ llm_log[1].raised) =>
        LET primary  == EFFORT_MODELS[run.effort]
            fallback == EFFORT_MODELS_FALLBACK[run.effort]
            ai       == { i \in 1..Len(messages) : messages[i].type = "ai" }
        IN  /\ llm_log[1].model = primary
            /\ llm_log[1].exc \in LLMErrors
            /\ IF ~is_transient_llm_error(llm_log[1].exc)
               THEN /\ Len(llm_log) = 1
                    /\ pc = "done"
                    /\ outcome = [kind |-> "raised", text |-> <<>>, exc |-> llm_log[1].exc]
               ELSE IF fallback # primary
               THEN /\ Len(llm_log) = 2
                    /\ llm_log[2].model = fallback
                    /\ ~llm_log[2].raised =>
                         /\ outcome.kind # "raised"
                         /\ ai # {}
                         /\ \E i \in ai : /\ \A j \in ai : j <= i
                                          /\ messages[i] = llm_log[2].reply
               ELSE TRUE

\* the fallback answered with tool calls after a transient error of the
\* primary, and the Run is executing them
C9_Witness ==
    /\ pc = "tool_node"
    /\ Len(llm_log) = 2
    /\ llm_log[1].raised
    /\ is_transient_llm_error(llm_log[1].exc)
    /\ ~llm_log[2].raised
    /\ llm_log[2].model # llm_log[1].model
    /\ messages[Len(messages)] = llm_log[2].reply

\* C10: one LLM call makes at most two model invocations, the primary and at
\* most one fallback on a different model; an error of the fallback
\* invocation, transient or not, is what run_agent raises, with no further
\* invocation; when the tier's fallback model equals the primary, a failing
\* primary is the only invocation.
C10_AtMostOneFallback ==
    (last_prompt.kind = "system" /\ llm_log # <<>>) =>
        /\ Len(llm_log) <= 2
        /\ llm_log[1].model = EFFORT_MODELS[run.effort]
        /\ Len(llm_log) = 2 =>
             /\ llm_log[1].raised
             /\ llm_log[2].model = EFFORT_MODELS_FALLBACK[run.effort]
             /\ llm_log[2].model # llm_log[1].model
             /\ llm_log[2].raised =>
                  /\ pc = "done"
                  /\ outcome = [kind |-> "raised", text |-> <<>>, exc |-> llm_log[2].exc]
        /\ (llm_log[1].raised /\ EFFORT_MODELS_FALLBACK[run.effort] = EFFORT_MODELS[run.effort]) =>
             /\ Len(llm_log) = 1
             /\ pc = "done"
             /\ outcome = [kind |-> "raised", text |-> <<>>, exc |-> llm_log[1].exc]

\* the fallback failed with a transient error too, and the Run is over
C10_Witness ==
    /\ pc = "done"
    /\ last_prompt.kind = "system"
    /\ Len(llm_log) = 2
    /\ llm_log[2].raised
    /\ is_transient_llm_error(llm_log[2].exc)
    /\ outcome.kind = "raised"
    /\ outcome.exc = llm_log[2].exc

\* C11: a request naming a tool that is not in the registry is answered with
\* the 'Unknown tool' observation, the tool node raises nothing, and the
\* requests that follow it in the same assistant turn are processed too: once
\* the turn's batch is done every request of it has its ToolMessage.
C11_UnknownToolObserved ==
    LET done == messages \o result
        calls == CallsOf(messages)
    IN  /\ \A c \in 1..Len(calls) : \A m \in 1..Len(done) :
              ( /\ calls[c].name \notin TOOLS_BY_NAME
                /\ done[m].type = "tool"
                /\ done[m].tool_call_id = calls[c].id ) =>
                  done[m].content = <<Seg("unknown_tool", calls[c].name, 0,
                                          14 + NameLen[calls[c].name])>>
        /\ (last_call.id # 0 /\ ~last_call.known) =>
              /\ ~last_call.invoked
              /\ ~last_call.raised
              /\ last_call.archived = "no"
              /\ outcome.kind # "raised"
        /\ \A i \in 1..Len(messages) :
              ( /\ messages[i].type = "ai"
                /\ \E k \in 1..Len(messages[i].tool_calls) :
                      messages[i].tool_calls[k].name \notin TOOLS_BY_NAME
                /\ (i < Len(messages) \/ pc = "llm_call") ) =>
                  /\ i + Len(messages[i].tool_calls) <= Len(messages)
                  /\ \A k \in 1..Len(messages[i].tool_calls) :
                        /\ messages[i + k].type = "tool"
                        /\ messages[i + k].tool_call_id = messages[i].tool_calls[k].id

\* an unknown tool was requested first in a turn, and the registered tool
\* requested after it was executed
C11_Witness ==
    \E i \in 1..Len(messages) :
        /\ messages[i].type = "ai"
        /\ Len(messages[i].tool_calls) = 2
        /\ i + 2 <= Len(messages)
        /\ messages[i].tool_calls[1].name \notin TOOLS_BY_NAME
        /\ messages[i].tool_calls[2].name \in TOOLS_BY_NAME
        /\ Kinds(messages[i + 1].content) = {"unknown_tool"}
        /\ "output" \in Kinds(messages[i + 2].content)

\* C12: an exception raised by a tool stays inside the tool node: the request
\* is answered with an error observation, nothing is archived to memory for
\* it, the requests after it in the batch are processed, and the Run goes on
\* to the next LLM call (run_agent raises only errors of the model provider).
C12_ToolErrorObserved ==
    /\ last_call.raised =>
          /\ last_call.invoked
          /\ Len(last_call.observation) >= 1
          /\ last_call.observation[1] = Seg("tool_error", last_call.name, 0, 32)
          /\ last_call.archived = "no"
          /\ \E m \in 1..Len(messages \o result) :
                /\ (messages \o result)[m].type = "tool"
                /\ (messages \o result)[m].tool_call_id = last_call.id
                /\ (messages \o result)[m].content = last_call.content
    /\ \A e \in 1..Len(effects.memory) :
          /\ effects.memory[e].content # <<>>
          /\ effects.memory[e].content[1].k = "output"
    /\ outcome.kind = "raised" => outcome.exc \in LLMErrors
    /\ \A i \in 1..Len(messages) :
          ( /\ messages[i].type = "tool"
            /\ messages[i].content # <<>>
            /\ messages[i].content[1].k = "tool_error" ) =>
              \E a \in 1..(i - 1) :
                  /\ messages[a].type = "ai"
                  /\ a + Len(messages[a].tool_calls) >= i
                  /\ a + Len(messages[a].tool_calls) <= Len(messages)
                  /\ \A k \in 1..Len(messages[a].tool_calls) :
                        /\ messages[a + k].type = "tool"
                        /\ messages[a + k].tool_call_id = messages[a].tool_calls[k].id
                  /\ pc \in {"llm_call", "tool_node", "fallback", "done"}

\* a research tool failed on the first request of a turn, the second request
\* was executed and archived, and the next LLM call is due
C12_Witness ==
    /\ pc = "llm_call"
    /\ Len(effects.memory) >= 1
    /\ \E i \in 1..Len(messages) :
        /\ messages[i].type = "ai"
        /\ Len(messages[i].tool_calls) = 2
        /\ i + 2 = Len(messages)
        /\ messages[i + 1].content # <<>>
        /\ messages[i + 1].content[1].k = "tool_error"
        /\ messages[i + 2].content # <<>>
        /\ messages[i + 2].content[1].k = "output"

\* C13: the requests of one assistant turn are processed in the order the
\* model emitted them; each gets exactly one ToolMessage carrying its call id,
\* and these are appended to the message sequence in that same order; the
\* message sequence only grows by appending.
C13_OrderedResults ==
    /\ [](/\ \A i \in 1..Len(messages) :
               messages[i].type = "ai" =>
                 LET tc == messages[i].tool_calls
                 IN  IF i < Len(messages)
                     THEN /\ i + Len(tc) <= Len(messages)
                          /\ \A k \in 1..Len(tc) :
                                /\ messages[i + k].type = "tool"
                                /\ messages[i + k].tool_call_id = tc[k].id
                          /\ (i + Len(tc) < Len(messages)) =>
                                messages[i + Len(tc) + 1].type = "ai"
                     ELSE /\ Len(result) = idx
                          /\ idx <= Len(tc)
                          /\ \A k \in 1..idx : /\ result[k].type = "tool"
                                               /\ result[k].tool_call_id = tc[k].id
                          /\ idx > 0 => last_call.id = tc[idx].id
          /\ \A i, j \in 1..Len(messages) :
               (i # j /\ messages[i].type = "tool" /\ messages[j].type = "tool") =>
                  messages[i].tool_call_id # messages[j].tool_call_id)
    /\ [][/\ Len(messages') >= Len(messages)
          /\ SubSeq(messages', 1, Len(messages)) = messages
          /\ (result' # result /\ result' # <<>>) =>
                /\ Len(result') = Len(result) + 1
                /\ SubSeq(result', 1, Len(result)) = result]_vars

\* a turn of two requests has been answered, in order
C13_Witness ==
    \E i \in 1..Len(messages) :
        /\ messages[i].type = "ai"
        /\ Len(messages[i].tool_calls) = 2
        /\ i + 2 <= Len(messages)
        /\ messages[i].tool_calls[1].id < messages[i].tool_calls[2].id
        /\ messages[i + 1].tool_call_id = messages[i].tool_calls[1].id
        /\ messages[i + 2].tool_call_id = messages[i].tool_calls[2].id

\* C14: the alternation ends at the first LLM reply without tool calls: that
\* reply stays the last message of the Run (no tool runs and no LLM call is
\* made after it), and run_agent returns exactly its text.
C14_NaturalEnd ==
    /\ \A i \in 1..Len(messages) :
          (messages[i].type = "ai" /\ messages[i].tool_calls = <<>>) =>
             /\ i = Len(messages)
             /\ pc = "done"
             /\ idx = 0
             /\ result = <<>>
             /\ last_prompt.kind = "system"
             /\ all_messages = messages
             /\ outcome = [kind |-> "returned", text |-> messages[i].content, exc |-> NoExc]
    /\ (pc = "done" /\ outcome.kind = "returned" /\ last_prompt.kind = "system"
          /\ steps < run.recursion_limit) =>
             /\ messages[Len(messages)].type = "ai"
             /\ messages[Len(messages)].tool_calls = <<>>

\* after a round of tools the model answered, and that answer was returned
C14_Witness ==
    /\ pc = "done"
    /\ Len(messages) >= 4
    /\ messages[Len(messages)].type = "ai"
    /\ messages[Len(messages)].tool_calls = <<>>
    /\ messages[Len(messages)].content # <<>>
    /\ outcome.kind = "returned"
    /\ outcome.text = messages[Len(messages)].content

\* C15: an error of the model provider that the LLM call did not recover from
\* ends the Run at once with run_agent raising that error: no summary is
\* attempted and no text is returned for it, and the step is not tried again;
\* the fallback summary (or its no-data notice) is produced only when the
\* step ceiling was hit.
C15_LLMErrorAborts ==
    /\ (last_prompt.kind = "system" /\ llm_log # <<>> /\ llm_log[Len(llm_log)].raised) =>
          /\ pc = "done"
          /\ outcome = [kind |-> "raised", text |-> <<>>, exc |-> llm_log[Len(llm_log)].exc]
          /\ Len(llm_log) <= 2
          /\ \A i \in 1..Len(llm_log) : llm_log[i].raised
    /\ outcome.kind = "raised" =>
          /\ pc = "done"
          /\ outcome.exc \in LLMErrors
          /\ llm_log # <<>>
          /\ llm_log[Len(llm_log)].raised
          /\ llm_log[Len(llm_log)].exc = outcome.exc
    /\ ( \/ pc = "fallback"
         \/ last_prompt.kind = "summary"
         \/ \E i \in 1..Len(outcome.text) :
               outcome.text[i].k \in {"hit_limit_notice", "hit_limit_no_data"} ) =>
          steps = 2 + 2 * run.max_rounds

\* after a round of tools the primary model failed with an error that is not
\* transient, and run_agent raised it
C15_Witness ==
    /\ pc = "done"
    /\ Len(messages) >= 3
    /\ last_prompt.kind = "system"
    /\ Len(llm_log) = 1
    /\ llm_log[1].raised
    /\ ~is_transient_llm_error(llm_log[1].exc)
    /\ outcome.kind = "raised"
    /\ outcome.exc = llm_log[1].exc

\* C16: resolve(session, answer) returns true exactly when a PendingQuestion
\* is registered for the session at the moment resolve looks it up; it then
\* appends the answer to that PendingQuestion and sets its event; when nothing
\* is registered it returns false and changes nothing.
C16_ResolveResult ==
    /\ [](\A i \in 1..Len(bot.log) :
            /\ bot.log[i].fate = "resolved" =>
                  /\ bot.log[i].res
                  /\ bot.log[i].pq \in 1..Len(pqs)
                  /\ pqs[bot.log[i].pq].event
                  /\ pqs[bot.log[i].pq].chat_id = bot.log[i].chat_id
                  /\ \E k \in 1..Len(pqs[bot.log[i].pq].answer) :
                        pqs[bot.log[i].pq].answer[k] = bot.log[i].text
            /\ bot.log[i].fate = "dropped" => (~bot.log[i].res /\ bot.log[i].pq = 0))
    /\ [][/\ (bot.pc = "resolve" /\ bot'.pc # "resolve") =>
                IF bot.chat_id \in DOMAIN pending
                THEN /\ bot'.pc = "append"
                     /\ bot'.pq = pending[bot.chat_id]
                     /\ bot'.log = bot.log
                ELSE /\ bot'.pc = "idle"
                     /\ Len(bot'.log) = Len(bot.log) + 1
                     /\ bot'.log[Len(bot'.log)].fate = "dropped"
                     /\ ~bot'.log[Len(bot'.log)].res
                     /\ UNCHANGED <<pending, pqs, workers, tasks, ask_count>>
          /\ (bot.pc = "append" /\ bot'.pc # "append") =>
                /\ bot'.pc = "set"
                /\ pqs' = [pqs EXCEPT ![bot.pq].answer = Append(@, bot.text)]
                /\ UNCHANGED <<pending, workers, tasks, ask_count>>
          /\ (bot.pc = "set" /\ bot'.pc # "set") =>
                /\ bot'.pc = "idle"
                /\ pqs' = [pqs EXCEPT ![bot.pq].event = TRUE]
                /\ Len(bot'.log) = Len(bot.log) + 1
                /\ bot'.log[Len(bot'.log)].fate = "resolved"
                /\ bot'.log[Len(bot'.log)].res
                /\ bot'.log[Len(bot'.log)].pq = bot.pq
                /\ UNCHANGED <<pending, workers, tasks, ask_count>>]_vars

\* one resolve found the question and returned true, another came after the
\* cleanup and returned false
C16_Witness ==
    \E i, j \in 1..Len(bot.log) :
        /\ bot.log[i].fate = "resolved" /\ bot.log[i].res
        /\ bot.log[j].fate = "dropped" /\ ~bot.log[j].res

\* C17: in every reachable state the answer list of a PendingQuestion holds
\* at most one string, and exactly one once its event has been set, however
\* many resolve calls reach the session before the waiting thread cleans up.
C17_SingleAnswer ==
    \A q \in 1..Len(pqs) :
        /\ Len(pqs[q].answer) <= 1
        /\ pqs[q].event => Len(pqs[q].answer) = 1

\* C18: the registry holds at most one PendingQuestion per session, the one
\* registered last for it; registering creates a new PendingQuestion and
\* leaves every existing one, the superseded one included, untouched (its
\* event is not set); on_message sees has_pending exactly when the session has
\* an entry; and a resolve changes only the PendingQuestion that was
\* registered when it looked the session up.
C18_LatestRegistrationOnly ==
    /\ [](\A c \in DOMAIN pending :
            /\ pending[c] \in 1..Len(pqs)
            /\ pqs[pending[c]].chat_id = c
            /\ \A q \in 1..Len(pqs) : pqs[q].chat_id = c => q <= pending[c])
    /\ [][/\ Len(pqs') >= Len(pqs)
          /\ Len(pqs') > Len(pqs) =>
                /\ Len(pqs') = Len(pqs) + 1
                /\ SubSeq(pqs', 1, Len(pqs)) = pqs
                /\ ~pqs'[Len(pqs')].event
                /\ pqs'[Len(pqs')].answer = <<>>
                /\ pqs'[Len(pqs')].chat_id \in DOMAIN pending'
                /\ pending'[pqs'[Len(pqs')].chat_id] = Len(pqs')
          /\ \A q \in 1..Len(pqs) :
                pqs'[q] # pqs[q] => (bot.pc \in {"append", "set"} /\ q = bot.pq)
          /\ (bot.pc = "idle" /\ bot'.pc = "resolve") => bot'.chat_id \in DOMAIN pending
          /\ (bot.pc = "idle" /\ bot'.pc = "idle" /\ bot'.handled # bot.handled) =>
                bot'.chat_id \notin DOMAIN pending
          /\ (bot.pc = "resolve" /\ bot'.pc = "append") =>
                /\ bot.chat_id \in DOMAIN pending
                /\ bot'.pq = pending[bot.chat_id]
                /\ \A q \in 1..Len(pqs) : pqs[q].chat_id = bot.chat_id => q <= bot'.pq]_vars

\* a session's question was superseded, and the reply went to the newer one:
\* the older is neither answered nor signalled
C18_Witness ==
    \E q1, q2 \in 1..Len(pqs) :
        /\ q1 < q2
        /\ pqs[q1].chat_id = pqs[q2].chat_id
        /\ ~pqs[q1].event
        /\ pqs[q1].answer = <<>>
        /\ pqs[q2].event
        /\ pqs[q2].answer # <<>>
        /\ \E w \in Workers : workers[w].pending = q1 /\ workers[w].pc = "wait"

\* C19: while a thread with a task is blocked in ask_human's wait, its task is
\* waiting_for_human, assigned to the human, with the question as
\* pending_question; and when ask_human returns from a wait, the task is
\* in_progress, assigned to the agent, with no pending_question, and the
\* call's PendingQuestion is not registered.
C19_TaskFollowsWait ==
    /\ [](\A w \in DOMAIN workers :
            (workers[w].pc = "wait" /\ workers[w].task_id # 0) =>
                /\ tasks[workers[w].task_id].status = "waiting_for_human"
                /\ tasks[workers[w].task_id].assignee_id = HUMAN
                /\ tasks[workers[w].task_id].pending_question = Question(w))
    /\ [][\A w \in DOMAIN workers :
            (workers[w].pc = "return" /\ workers'[w].pc = "idle") =>
                /\ workers[w].task_id # 0 =>
                     /\ tasks'[workers[w].task_id].status = "in_progress"
                     /\ tasks'[workers[w].task_id].assignee_id = AGENT
                     /\ tasks'[workers[w].task_id].pending_question = ""
                /\ \A c \in DOMAIN pending' : pending'[c] # workers[w].pending]_vars

\* ---------------------------------------------------------------------------
\* (specification SpecLock)
\* ---------------------------------------------------------------------------

\* C20: no thread is in the wait of ask_human while it holds the registry
\* mutex; the holder of the mutex is always inside a single registry block
\* (register, cleanup, has_pending, resolve's lookup, get_stale), and that
\* block can always run to its end; a thread standing before a block can take
\* the mutex as soon as it is free, however many threads are waiting; and a
\* resolve that is past its lookup can always append the answer and set the
\* event, after which the waiter can wake.
C20_NoWaitUnderLock ==
    /\ lock \in {0} \cup Threads
    /\ \A w \in Workers : workers[w].pc = "wait" => lock # w
    /\ lock \in Workers => workers[lock].pc \in {"register", "cleanup"}
    /\ lock = BOT => bot.pc \in {"has_pending", "resolve", "get_stale"}
    /\ lock # 0 => ENABLED CriticalSection(lock)
    /\ \A t \in Threads : (WantsLock(t) /\ lock = 0) => ENABLED LockAcquire(t)
    /\ bot.pc = "append" => ENABLED ResolveAppend
    /\ bot.pc = "set" => ENABLED ResolveSet
    /\ \A w \in Workers :
         (workers[w].pc = "wait" /\ pqs[workers[w].pending].event) => ENABLED AskWake(w)

\* both workers are blocked in the wait while the bot holds the mutex inside
\* resolve's lookup
C20_Witness ==
    /\ \A w \in Workers : workers[w].pc = "wait"
    /\ lock = BOT
    /\ bot.pc = "resolve"

\* ---------------------------------------------------------------------------
\* (specification SpecCap)
\* ---------------------------------------------------------------------------

\* C21: for every task, the questions ask_human has registered and sent for
\* it, over all its calls, number at most MAX_ASKS_PER_TASK, whatever other
\* tasks have entries in the ask-count table and whenever the table is evicted.
C21_AskCap ==
    \A t \in DOMAIN tasks :
        Cardinality({ q \in 1..Len(pqs) : pqs[q].task_id = t }) <= MAX_ASKS_PER_TASK

\* ---------------------------------------------------------------------------
\* (specification SpecRuns)
\* ---------------------------------------------------------------------------

\* C22: the governor's counters are Run-local.  In every Run, on whichever
\* thread and after whichever Runs, both tables exist and hold exactly the
\* calls to registered tools made so far in that Run (so they are empty at
\* its entry), and the verdict of its last call is the governor's verdict on
\* the counts of that Run alone.
C22_RunLocalCounters ==
    \A t \in DOMAIN pool :
        pool[t].pc = "running" =>
            LET tl     == pool[t].thread_local
                made   == pool[t].made
                known  == { c \in PoolCalls : c.name \in TOOLS_BY_NAME }
            IN  /\ tl.tool_call_counts # <<>>
                /\ tl.tool_name_counts # <<>>
                /\ DOMAIN Table(tl.tool_call_counts) =
                       { tool_call_hash(c.name, c.args) : c \in known \cap DOMAIN made }
                /\ \A c \in known \cap DOMAIN made :
                       Table(tl.tool_call_counts)[tool_call_hash(c.name, c.args)] = made[c]
                /\ DOMAIN Table(tl.tool_name_counts) = { c.name : c \in known \cap DOMAIN made }
                /\ \A n \in DOMAIN Table(tl.tool_name_counts) :
                       Table(tl.tool_name_counts)[n] = MadeByName(made, n, Cardinality(PoolArgs))
                /\ pool[t].calls = 0 =>
                       /\ Table(tl.tool_call_counts) = EmptyDict
                       /\ Table(tl.tool_name_counts) = EmptyDict
                /\ \A c \in known :
                       pool[t].last = <<c>> =>
                           pool[t].verdict =
                               governor(c.name, made[c], MadeByName(made, c.name, Cardinality(PoolArgs)))

\* a thread is in its second Run, the other thread is in a Run too; the first
\* has made one call that the other has already been blocked for
C22_Witness ==
    \E t, u \in DOMAIN pool :
        \E c \in PoolCalls :
            /\ t # u
            /\ pool[t].runs = 1 /\ pool[t].pc = "running"
            /\ pool[u].pc = "running"
            /\ pool[t].last = <<c>> /\ pool[t].verdict = "proceed"
            /\ pool[u].last = <<c>> /\ pool[u].verdict = "block_identical"

\* ---------------------------------------------------------------------------
\* (specification Spec)
\* ---------------------------------------------------------------------------

\* C23: the effective tier of a Run is "deep" when "normal" was requested and
\* some deep-research phrase occurs in the query, letter case aside; it is the
\* requested tier in every other case, so "quick" and "deep" stay what they
\* are; max_rounds is the budget of the effective tier and the step ceiling is
\* 2 + 2 x max_rounds.
C23_EffectiveEffort ==
    pc # "idle" =>
        LET q       == run.query
            same(a, b) == Lower(<<a>>) = Lower(<<b>>)
            occurs(kw) == \E i \in 0..(Len(q) - Len(kw)) :
                              \A j \in 1..Len(kw) : same(q[i + j], kw[j])
            phrase  == \E kw \in DEEP_RESEARCH_KEYWORDS : occurs(kw)
        IN  /\ (run.requested = "normal" /\ phrase) => run.effort = "deep"
            /\ ~(run.requested = "normal" /\ phrase) => run.effort = run.requested
            /\ run.requested = "quick" => run.effort = "quick"
            /\ run.requested = "deep" => run.effort = "deep"
            /\ run.max_rounds = EFFORT_ROUNDS[run.effort]
            /\ run.max_rounds >= EFFORT_ROUNDS[run.requested]
            /\ run.recursion_limit = 2 + 2 * run.max_rounds

\* a Run requested as "normal" ended after working with the "deep" budget, and
\* it used more tool rounds than "normal" allows
C23_Witness ==
    /\ pc = "done"
    /\ run.requested = "normal"
    /\ run.effort = "deep"
    /\ count_tool_rounds(messages) > EFFORT_ROUNDS["normal"]

\* C24: the content of a ToolMessage is the observation itself when the
\* observation has at most TOOL_RESULT_MAX_CHARS characters; when it has more,
\* the content is the first TOOL_RESULT_MAX_CHARS characters of the
\* observation followed by one marker, and the marker states the overflow:
\* the observation's length minus TOOL_RESULT_MAX_CHARS.
C24_Truncation ==
    last_call.name # "" =>
        LET obs == last_call.observation
            con == last_call.content
            M   == TOOL_RESULT_MAX_CHARS
            k   == Len(con) - 1
        IN  /\ result # <<>> => result[Len(result)].content = con
            /\ TextLen(obs) <= M => con = obs
            /\ TextLen(obs) > M =>
                 /\ k >= 1
                 /\ con[k + 1].k = "truncated"
                 /\ con[k + 1].c = TextLen(obs) - M
                 /\ con[k + 1].n = 24 + DigitsGrouped(TextLen(obs) - M)
                 /\ TextLen(SubSeq(con, 1, k)) = M
                 /\ k <= Len(obs)
                 /\ \A i \in 1..(k - 1) : con[i] = obs[i]
                 /\ con[k].k = obs[k].k /\ con[k].name = obs[k].name /\ con[k].c = obs[k].c
                 /\ con[k].n <= obs[k].n
                 /\ \A i \in 1..k : con[i].k # "truncated"

\* an observation of TOOL_RESULT_MAX_CHARS + 2 characters was cut, and the
\* marker reports the 2
C24_Witness ==
    /\ last_call.name # ""
    /\ TextLen(last_call.observation) = TOOL_RESULT_MAX_CHARS + 2
    /\ last_call.content[Len(last_call.content)].k = "truncated"
    /\ last_call.content[Len(last_call.content)].c = 2

\* C25: for a call to a registered tool the two counts, taken after their
\* increment, decide in this order: the identical count at its block threshold
\* blocks with the identical-call message; else the name count at the tool's
\* block threshold blocks with the per-name message; else the tool is executed
\* and its observation gets exactly one warning suffix, the identical-call
\* one if the identical count is at its warn threshold and otherwise the
\* per-name one if the name count is at the tool's warn threshold; else the
\* observation is what the execution gave, with nothing added.
C25_VerdictOrder ==
    last_call.known =>
        LET name == last_call.name
            obs  == last_call.observation
            IB   == last_call.count >= TOOL_LOOP_BLOCK_THRESHOLD
            NB   == last_call.name_count >=
                        Get(TOOL_NAME_BLOCK_OVERRIDES, name, TOOL_NAME_BLOCK_THRESHOLD)
            IW   == last_call.count >= TOOL_LOOP_WARN_THRESHOLD
            NW   == last_call.name_count >=
                        Get(TOOL_NAME_WARN_OVERRIDES, name, TOOL_NAME_WARN_THRESHOLD)
            real == IF last_call.raised THEN Kinds(obs) \cap {"tool_error"} # {}
                    ELSE SubSeq(obs, 1, Len(last_call.output)) = last_call.output
            marks == { i \in 1..Len(obs) :
                         obs[i].k \in {"WARNING_identical", "WARNING_name",
                                       "BLOCKED_identical", "BLOCKED_name"} }
        IN  /\ IB => /\ last_call.blocked /\ ~last_call.invoked
                     /\ Len(obs) = 1
                     /\ obs[1].k = "BLOCKED_identical" /\ obs[1].c = last_call.count
            /\ (~IB /\ NB) =>
                     /\ last_call.blocked /\ ~last_call.invoked
                     /\ Len(obs) = 1
                     /\ obs[1].k = "BLOCKED_name" /\ obs[1].c = last_call.name_count
            /\ (~IB /\ ~NB) => /\ last_call.invoked /\ ~last_call.blocked /\ real
            /\ (~IB /\ ~NB /\ IW) =>
                     /\ marks = {Len(obs)}
                     /\ obs[Len(obs)].k = "WARNING_identical"
                     /\ obs[Len(obs)].c = last_call.count
            /\ (~IB /\ ~NB /\ ~IW /\ NW) =>
                     /\ marks = {Len(obs)}
                     /\ obs[Len(obs)].k = "WARNING_name"
                     /\ obs[Len(obs)].c = last_call.name_count
            /\ (~IB /\ ~NB /\ ~IW /\ ~NW) => marks = {}

\* both block thresholds are reached by the same call: the identical-call
\* message is the one observed
C25_Witness ==
    /\ last_call.known
    /\ last_call.count >= TOOL_LOOP_BLOCK_THRESHOLD
    /\ last_call.name_count >=
           Get(TOOL_NAME_BLOCK_OVERRIDES, last_call.name, TOOL_NAME_BLOCK_THRESHOLD)
    /\ last_call.observation[1].k = "BLOCKED_identical"

\* C26: a request for a registered tool adds exactly one to its identical-call
\* count and one to its per-name count, and the counts the verdict is taken
\* from are the ones after the addition, also when the call is blocked; no
\* other entry changes; a request for an unknown tool leaves both tables as
\* they are; and from the entry of a Run on, no count ever goes down.
C26_IncrementThenCheck ==
    [][/\ (pc = "tool_node" /\ idx' = idx + 1) =>
            LET call == messages[Len(messages)].tool_calls[idx + 1]
                h    == tool_call_hash(call.name, call.args)
                old  == Table(thread_local.tool_call_counts)
                new  == Table(thread_local'.tool_call_counts)
                nold == Table(thread_local.tool_name_counts)
                nnew == Table(thread_local'.tool_name_counts)
            IN  IF call.name \in TOOLS_BY_NAME
                THEN /\ DOMAIN new = DOMAIN old \cup {h}
                     /\ new[h] = Get(old, h, 0) + 1
                     /\ \A k \in DOMAIN old \ {h} : new[k] = old[k]
                     /\ DOMAIN nnew = DOMAIN nold \cup {call.name}
                     /\ nnew[call.name] = Get(nold, call.name, 0) + 1
                     /\ \A k \in DOMAIN nold \ {call.name} : nnew[k] = nold[k]
                     /\ last_call'.count = new[h]
                     /\ last_call'.name_count = nnew[call.name]
                     /\ last_call'.blocked =>
                          (last_call'.count > Get(old, h, 0)
                             /\ last_call'.name_count > Get(nold, call.name, 0))
                ELSE thread_local' = thread_local
       /\ pc # "idle" =>
            /\ \A k \in DOMAIN Table(thread_local.tool_call_counts) :
                 /\ k \in DOMAIN Table(thread_local'.tool_call_counts)
                 /\ Table(thread_local'.tool_call_counts)[k] >=
                        Table(thread_local.tool_call_counts)[k]
            /\ \A k \in DOMAIN Table(thread_local.tool_name_counts) :
                 /\ k \in DOMAIN Table(thread_local'.tool_name_counts)
                 /\ Table(thread_local'.tool_name_counts)[k] >=
                        Table(thread_local.tool_name_counts)[k]]_vars

\* a blocked call has been counted, and a request for an unknown tool has
\* been answered since, with the tables still holding that count
C26_Witness ==
    /\ last_call.name = "no_such_tool"
    /\ \E k \in DOMAIN Table(thread_local.tool_name_counts) :
         Table(thread_local.tool_name_counts)[k] >= 2
    /\ "no_such_tool" \notin DOMAIN Table(thread_local.tool_name_counts)

\* ---------------------------------------------------------------------------
\* Properties of the human-input gate, continued (specification SpecGate)
\* ---------------------------------------------------------------------------
\* C27: when resolve returns true for a message (the first it accepts for that
\* PendingQuestion), the ask_human call that registered that PendingQuestion
\* returns the message's text, not the no-answer sentinel, also when the
\* waiter's timeout has already fired.
C27_ResolvedIsReturned ==
    \A i \in 1..Len(bot.log) :
        ( /\ bot.log[i].fate = "resolved"
          /\ bot.log[i].res
          /\ \A j \in 1..(i - 1) : bot.log[j].pq # bot.log[i].pq )
        => \A w \in Workers :
              (workers[w].pending = bot.log[i].pq /\ workers[w].pc = "idle")
                 => workers[w].ret = bot.log[i].text

\* C28: no text message handled by on_message is lost: each one either started
\* (or proposed) a new task, or is the value returned by the ask_human call of
\* its chat whose PendingQuestion it was given to.
C28_NoMessageLost ==
    \A i \in 1..Len(bot.log) :
        \/ bot.log[i].fate = "new_task"
        \/ /\ bot.log[i].fate = "resolved"
           /\ \A w \in Workers :
                (workers[w].pending = bot.log[i].pq /\ workers[w].pc = "idle")
                   => (workers[w].chat_id = bot.log[i].chat_id
                         /\ workers[w].ret = bot.log[i].text)

\* ---------------------------------------------------------------------------
\* Properties of the Run, continued (specification Spec)
\* ---------------------------------------------------------------------------
\* C29: in a Run with max_rounds = R, at most R assistant messages have their
\* tool calls executed: while R batches are complete, no tool of a further
\* assistant message is invoked.
C29_AtMostRBatches ==
    LET batches == { i \in 1..(Len(all_messages) - 1) :
                       /\ all_messages[i].type = "ai"
                       /\ all_messages[i].tool_calls # <<>>
                       /\ all_messages[i + 1].type = "tool" }
    IN  run.max_rounds # 0 =>
          /\ Cardinality(batches) <= run.max_rounds
          /\ (pc = "tool_node" /\ idx > 0 /\ last_call.invoked) =>
                Cardinality(batches) < run.max_rounds

\* ---------------------------------------------------------------------------
\* Properties of the human-input gate, continued (specification SpecGate)
\* ---------------------------------------------------------------------------
\* C30: the PendingQuestion is registered before the question is sent and
\* before the thread blocks: while a call is sending its question or waiting
\* on an event that is not yet set, has_pending of its session is true.
C30_PendingWhileAsked ==
    \A w \in Workers :
        ( /\ workers[w].pc \in {"send", "wait"}
          /\ ~pqs[workers[w].pending].event )
        => has_pending(workers[w].chat_id)

\* ---------------------------------------------------------------------------
\* Properties of the Run, continued (specification Spec)
\* ---------------------------------------------------------------------------
\* C31: an observation is handed to memory_add only for a call of a tool
\* tagged "research" that the governor did not block and whose observation
\* does not begin with an error marker; and when memory_add raises, the
\* request's ToolMessage is appended all the same, carrying the (truncated)
\* observation built from the tool's output and the warning, nothing is
\* recorded in memory, and the loop goes on to the next request.
C31_ArchiveBestEffort ==
    /\ last_call.archived # "no" =>
          /\ last_call.known
          /\ "research" \in Get(TOOL_PLUGIN_TAGS, last_call.name, {})
          /\ ~last_call.blocked
          /\ last_call.invoked
          /\ ~last_call.raised
          /\ \A i \in 1..Len(last_call.observation) :
                last_call.observation[i].k \notin
                    {"tool_error", "browser_error", "memory_rag_error",
                     "unknown_tool", "BLOCKED_identical", "BLOCKED_name"}
    /\ \A e \in 1..Len(effects.memory) :
          \A i \in 1..Len(effects.memory[e].content) :
              effects.memory[e].content[i].k \in {"output", "WARNING_identical", "WARNING_name"}
    /\ (last_call.archived = "failed" /\ pc = "tool_node" /\ idx >= 1) =>
          /\ Len(result) = idx
          /\ result[idx] = ToolMessage(last_call.content, last_call.id)
          /\ last_call.content =
                truncate_observation(last_call.observation, TOOL_RESULT_MAX_CHARS)
          /\ last_call.observation =
                last_call.output \o WarningText(last_call.verdict, last_call.name,
                                                last_call.count, last_call.name_count)
          /\ outcome.kind # "raised"

\* memory_add raised for the first request of a batch, and the next request
\* of the batch has been served since
C31_Witness ==
    /\ pc = "tool_node"
    /\ idx >= 2
    /\ last_call.archived = "failed"
    /\ Len(effects.memory) < idx
    /\ Len(result) = idx

\* C32: with a progress callback supplied, the callback has been invoked
\* exactly once for each tool call request whose ToolMessage exists, in
\* request order, with the request's name and arguments and the observation
\* before truncation; a callback that raises leaves the ToolMessage as it
\* was produced and the loop running.  Without a callback, nothing is invoked.
C32_ProgressCallback ==
    LET produced == SelectSeq(all_messages, LAMBDA m : m.type = "tool")
                      \o (IF pc = "tool_node" THEN result ELSE <<>>)
        requests == CallsOf(all_messages)
    IN  pc # "idle" =>
          /\ env.on_progress = <<>> =>
                (effects.progress = <<>> /\ last_call.notified = "no")
          /\ env.on_progress # <<>> =>
                /\ Len(effects.progress) = Len(produced)
                /\ Len(produced) <= Len(requests)
                /\ \A i \in 1..Len(effects.progress) :
                      /\ effects.progress[i].name = requests[i].name
                      /\ effects.progress[i].args = requests[i].args
                      /\ produced[i].tool_call_id = requests[i].id
                      /\ produced[i].content =
                            truncate_observation(effects.progress[i].observation,
                                                 TOOL_RESULT_MAX_CHARS)
          /\ (last_call.notified = "raised" /\ pc = "tool_node" /\ idx >= 1) =>
                /\ Len(result) = idx
                /\ result[idx] = ToolMessage(last_call.content, last_call.id)
                /\ last_call.content =
                      truncate_observation(last_call.observation, TOOL_RESULT_MAX_CHARS)
                /\ effects.progress[Len(effects.progress)].observation = last_call.observation
                /\ outcome.kind # "raised"

\* the callback raised for one request of a batch and has been invoked for
\* the next request since
C32_Witness ==
    /\ pc = "tool_node"
    /\ idx >= 2
    /\ last_call.notified = "raised"
    /\ Len(effects.progress) >= 2
    /\ Len(result) = idx

\* ---------------------------------------------------------------------------
\* Properties of the reminder job (specification SpecStale)
\* ---------------------------------------------------------------------------
\* C33: get_stale(threshold) returns exactly the PendingQuestions that are
\* registered at the time of the call and older than the threshold (so never
\* one registered at the current instant), and it changes neither the
\* registry nor any PendingQuestion (answer, event) nor any waiting thread.
C33_StaleSweep ==
    [][(bot.pc = "get_stale" /\ bot'.pc = "remind") =>
          /\ bot'.stale =
                { q \in 1..Len(pqs) :
                    /\ \E c \in DOMAIN pending : pending[c] = q
                    /\ now - pqs[q].created_at > 300 }
          /\ \A q \in bot'.stale : pqs[q].created_at < now
          /\ pending' = pending
          /\ pqs' = pqs
          /\ workers' = workers
          /\ tasks' = tasks]_vars

\* the sweep returned the registered question of a session and left out an
\* older question of the same session that is no longer registered
C33_Witness ==
    /\ bot.pc = "remind"
    /\ bot.stale # {}
    /\ \E q \in 1..Len(pqs) :
         /\ q \notin bot.stale
         /\ \A r \in bot.stale : q < r /\ pqs[q].chat_id = pqs[r].chat_id

\* ---------------------------------------------------------------------------
\* Properties of the heartbeat watchdog (specification SpecWatch)
\* ---------------------------------------------------------------------------
\* C34: the watchdog never resets to pending the task of a thread that is
\* still running the agent for it, neither while the thread is blocked in
\* ask_human nor after ask_human has restored the task to in_progress.
C34_NoResetWhileRunning ==
    \A w \in DOMAIN workers :
        workers[w].task_id # 0 => tasks[workers[w].task_id].status # "pending"

\* ---------------------------------------------------------------------------
\* Properties of the startup reset (specification SpecBoot)
\* ---------------------------------------------------------------------------
\* C35: reset_waiting_tasks sets every task in status waiting_for_human to
\* failed with no pending_question and no assignee, leaves every other task
\* as it is, and returns the number of tasks it reset.
C35_ResetWaiting ==
    [][(bot.pc = "startup" /\ bot'.pc # "startup") =>
          /\ \A t \in DOMAIN tasks :
                IF tasks[t].status = "waiting_for_human"
                THEN /\ tasks'[t].status = "failed"
                     /\ tasks'[t].pending_question = ""
                     /\ tasks'[t].assignee_id = None
                     /\ tasks'[t].worker_id = tasks[t].worker_id
                ELSE tasks'[t] = tasks[t]
          /\ DOMAIN tasks' = DOMAIN tasks
          /\ bot'.handled =
                Cardinality({ t \in DOMAIN tasks : tasks[t].status = "waiting_for_human" })]_vars

\* one task with a question was reset, a task in progress was left alone
C35_Witness ==
    /\ bot.pc = "foreign"
    /\ bot.handled = 1
    /\ \E t, u \in DOMAIN tasks :
         /\ tasks[t].status = "failed" /\ tasks[t].assignee_id = None
         /\ tasks[u].status = "in_progress" /\ tasks[u].pending_question = "Q1"

\* ---------------------------------------------------------------------------
\* Properties of the worker thread's retry loop (specification SpecRetry)
\* ---------------------------------------------------------------------------
\* C36: the worker runs the agent at most 1 + AGENT_MAX_RETRIES times, every
\* run but the last raised an error classified transient, and the thread ends
\* with the task completed if some run returned and failed otherwise (so never
\* in_progress or waiting_for_human).
C36_RetryThenSettle ==
    \A t \in DOMAIN pool :
        LET runs == pool[t].runs
        IN  /\ Len(runs) <= 1 + AGENT_MAX_RETRIES
            /\ \A i \in 1..(Len(runs) - 1) : runs[i] = "raised_transient"
            /\ pool[t].pc = "done" =>
                 tasks[pool[t].task_id].status =
                     IF \E i \in 1..Len(runs) : runs[i] = "returned"
                     THEN "completed" ELSE "failed"

====
